---------------------------- MODULE Spec2Model ----------------------------
(***************************************************************************)
(* A model of gyaml (src/gyaml.go): path resolution over a decoded YAML    *)
(* tree.  Go strings are sequences of one-character strings, so that       *)
(* strings.Split, HasPrefix, TrimSpace, strconv.Atoi ... are computed the  *)
(* way the library computes them.  A float64 is an integer number of       *)
(* tenths (15 stands for 1.5); every number of the model has at most one   *)
(* fractional digit and a magnitude below 10^6, where float64 is exact     *)
(* and strconv's 'g' format uses no exponent.                              *)
(***************************************************************************)
EXTENDS Integers, Sequences, FiniteSets, TLC

VARIABLES doc, path, pc, res, sub, res2, out, calls, gs, stack, steps

vars == <<doc, path, pc, res, sub, res2, out, calls, gs, stack, steps>>

(***************************************************************************)
(* TLC compares two records field by field, in the order in which the      *)
(* field names first occur in the module: the records below are defined    *)
(* first so that the tag (kind, form) is compared before the payload.      *)
(***************************************************************************)
(***************************************************************************)
(* The decoded tree: what yaml.Unmarshal stores in an interface{}.  A      *)
(* value is [kind, val]: the Go type and the value.  A mapping             *)
(* whose keys are all strings decodes to map[string]interface{} ("strmap", *)
(* a function from key strings), any other mapping to                      *)
(* map[interface{}]interface{} ("genmap", a function from key values).     *)
(***************************************************************************)
Nil == [kind |-> "nil", val |-> <<>>]

VBool(b) == [kind |-> "bool", val |-> b]

VStr(s) == [kind |-> "string", val |-> s]

VInt(n) == [kind |-> "int", val |-> n]

VFloat(f) == [kind |-> "float64", val |-> f]

VSlice(s) == [kind |-> "slice", val |-> s]

VMap(m) == [kind |-> "strmap", val |-> m]

VGen(m) == [kind |-> "genmap", val |-> m]

(***************************************************************************)
(* gopkg.in/yaml.v3, a black box: a Go string (Result.Raw, a document) is  *)
(* [form, text].  "chars": the characters text.  "yaml": a well-formed     *)
(* document, text.tree what it decodes to and text.style how it is written *)
(* ("block" is what yaml.Marshal emits; one tree has several texts).       *)
(* "bad": a text the parser rejects.                                       *)
(***************************************************************************)
Chars(s) == [form |-> "chars", text |-> s]

EmptyText == Chars(<<>>)

YamlText(tree, style) == [form |-> "yaml", text |-> [tree |-> tree, style |-> style]]

BadText == [form |-> "bad", text |-> <<>>]

(***************************************************************************)
(* Bounds of the model.                                                    *)
(***************************************************************************)
\* longest sequence the generated documents hold under the key "a"
MaxLen == 2
\* largest index token of the generated paths (the smallest is -1)
MaxIdx == 2

(***************************************************************************)
(* strings, strconv, fmt                                                   *)
(***************************************************************************)
Digits == <<"0", "1", "2", "3", "4", "5", "6", "7", "8", "9">>

IsDigit(c) == \E i \in 1..Len(Digits) : Digits[i] = c

DigitVal(c) == (CHOOSE i \in 1..Len(Digits) : Digits[i] = c) - 1

\* unicode.IsSpace, on the characters of the model
IsSpace(c) == c \in {" ", "\t", "\n", "\r"}

Abs(n) == IF n < 0 THEN -n ELSE n

Drop(s, n) == SubSeq(s, n + 1, Len(s))

Take(s, n) == SubSeq(s, 1, n)

HasPrefix(s, p) == Len(s) >= Len(p) /\ Take(s, Len(p)) = p

HasSuffix(s, p) == Len(s) >= Len(p) /\ Drop(s, Len(s) - Len(p)) = p

\* the least element of a non-empty set of integers
Least(S) == CHOOSE i \in S : \A j \in S : i <= j

\* the least element of a set of positions, 0 when there is none
FirstOf(S) == IF S = {} THEN 0 ELSE Least(S)

\* strings.Index: the first position (from 1) where sep starts in s, 0 if none
StrIndex(s, sep) ==
    FirstOf({i \in 1..(Len(s) - Len(sep) + 1) : SubSeq(s, i, i + Len(sep) - 1) = sep})

Contains(s, sep) == StrIndex(s, sep) # 0

\* s cut at position i (from 1) of a separator of length n
CutAt(s, i, n) == <<Take(s, i - 1), Drop(s, i + n - 1)>>

RECURSIVE Split(_, _)
RECURSIVE SplitAt(_, _, _)
\* strings.Split(s, sep) for a non-empty sep
Split(s, sep) == SplitAt(s, sep, StrIndex(s, sep))

\* Split, given the position i of the first sep in s (0: none)
SplitAt(s, sep, i) ==
    IF i = 0 THEN <<s>>
    ELSE <<Take(s, i - 1)>> \o Split(Drop(s, i + Len(sep) - 1), sep)

\* strings.SplitN(s, sep, 2), called only when s contains sep
SplitN2(s, sep) == CutAt(s, StrIndex(s, sep), Len(sep))

RECURSIVE Join(_, _)
\* strings.Join(parts, sep)
Join(parts, sep) ==
    IF parts = <<>> THEN <<>>
    ELSE IF Len(parts) = 1 THEN parts[1]
    ELSE parts[1] \o sep \o Join(Tail(parts), sep)

RECURSIVE TrimLeftIn(_, _)
TrimLeftIn(s, cut) ==
    IF s # <<>> /\ s[1] \in cut THEN TrimLeftIn(Tail(s), cut) ELSE s

RECURSIVE TrimRightIn(_, _)
TrimRightIn(s, cut) ==
    IF s # <<>> /\ s[Len(s)] \in cut THEN TrimRightIn(Take(s, Len(s) - 1), cut) ELSE s

\* strings.Trim(s, cutset)
Trim(s, cut) == TrimRightIn(TrimLeftIn(s, cut), cut)

\* strings.TrimSpace
TrimSpace(s) == Trim(s, {" ", "\t", "\n", "\r"})

AllDigits(s) == s # <<>> /\ \A i \in 1..Len(s) : IsDigit(s[i])

RECURSIVE DigitsVal(_)
\* the value of a string of decimal digits
DigitsVal(s) ==
    IF s = <<>> THEN 0 ELSE 10 * DigitsVal(Take(s, Len(s) - 1)) + DigitVal(s[Len(s)])

\* a string starts with a sign
IsSigned(s) == s # <<>> /\ s[1] \in {"-", "+"}

\* the number of unsigned decimal digits, if body is such
AtoiDigits(body) ==
    IF AllDigits(body) THEN [err |-> FALSE, n |-> DigitsVal(body)] ELSE [err |-> TRUE, n |-> 0]

\* a parsed magnitude r under the sign character
AtoiSigned(sign, r) ==
    IF ~r.err /\ sign = "-" THEN [err |-> FALSE, n |-> -r.n] ELSE r

\* strconv.Atoi: an optional sign and decimal digits
Atoi(s) == IF IsSigned(s) THEN AtoiSigned(s[1], AtoiDigits(Tail(s))) ELSE AtoiDigits(s)

(***************************************************************************)
(* strconv.ParseFloat on the strings of the model: an optional sign, then  *)
(* digits with at most one '.', at least one digit in all.  Exponents, hex *)
(* floats, "inf" and "nan" need the letters e, x, p, i, n, f, which no     *)
(* string of the model that starts like a number holds.  The value is in   *)
(* tenths; a second fractional digit does not occur in the model.          *)
(***************************************************************************)
ParseFloatDigits(ip, fp) ==
    IF /\ \A i \in 1..Len(ip) : IsDigit(ip[i])
       /\ \A i \in 1..Len(fp) : IsDigit(fp[i])
       /\ Len(ip) + Len(fp) > 0
    THEN [err |-> FALSE, f |-> 10 * DigitsVal(ip) + (IF fp = <<>> THEN 0 ELSE DigitVal(fp[1]))]
    ELSE [err |-> TRUE, f |-> 0]

\* the unsigned body, given the position dot of its '.' (0: none)
ParseFloatAt(body, dot) ==
    IF dot = 0 THEN ParseFloatDigits(body, <<>>)
    ELSE ParseFloatDigits(Take(body, dot - 1), Drop(body, dot))

\* a parsed magnitude r under the sign character
ParseFloatSigned(sign, r) ==
    IF ~r.err /\ sign = "-" THEN [err |-> FALSE, f |-> -r.f] ELSE r

ParseFloat(s) ==
    IF IsSigned(s) THEN ParseFloatSigned(s[1], ParseFloatAt(Tail(s), StrIndex(Tail(s), <<".">>)))
    ELSE ParseFloatAt(s, StrIndex(s, <<".">>))

RECURSIVE NatString(_)
NatString(n) ==
    IF n < 10 THEN <<Digits[n + 1]>> ELSE NatString(n \div 10) \o <<Digits[(n % 10) + 1]>>

\* The integers from Pow53 on stand for the integers from 2^53 =
\* 9007199254740992 on, where float64 holds every second integer only:
\* Pow53 + k is 2^53 + k, and -(Pow53 + k) is -(2^53 + k), for k up to 7
Pow53 == 100000000

\* the decimal digits of 2^53 + k
Pow53String(k) ==
    <<"9", "0", "0", "7", "1", "9", "9", "2", "5", "4", "7", "4", "0">> \o NatString(992 + k)

\* the decimal digits of the natural number that n stands for
MagnitudeString(n) == IF n >= Pow53 THEN Pow53String(n - Pow53) ELSE NatString(n)

\* strconv.FormatInt(n, 10)
FormatInt(n) == IF n < 0 THEN <<"-">> \o MagnitudeString(-n) ELSE MagnitudeString(n)

\* the decimal text of a tenths of a unit, a >= 0
FormatTenths(a) ==
    NatString(a \div 10) \o (IF a % 10 = 0 THEN <<>> ELSE <<".", Digits[(a % 10) + 1]>>)

\* %e of the sixteen digits d of a float64 from 2^53 on: d.ddddddddddddddde+15
FormatExponent(d) == <<d[1], ".">> \o Tail(d) \o <<"e", "+", "1", "5">>

\* the text of a tenths of a unit: below 10^5 units there is no exponent,
\* from 2^53 units on (exponent 15, not below the 6 of the shortest %g) there is
FormatMagnitude(a) ==
    IF a >= 10 * Pow53 THEN FormatExponent(Pow53String((a \div 10) - Pow53)) ELSE FormatTenths(a)

\* strconv.FormatFloat(f, 'g', -1, 64) of f tenths
FormatFloat(f) == IF f < 0 THEN <<"-">> \o FormatMagnitude(-f) ELSE FormatMagnitude(f)

\* the float64 nearest to 2^53 + k, ties to the even mantissa: from 2^53
\* to 2^54 the float64 values are the even integers
NearestOver(k) == IF k % 2 = 0 THEN k ELSE IF k % 4 = 1 THEN k - 1 ELSE k + 1

\* float64(n) of a natural number n
Float64Magnitude(n) == IF n >= Pow53 THEN 10 * (Pow53 + NearestOver(n - Pow53)) ELSE 10 * n

\* float64(n) of an integer n
Float64(n) == IF n < 0 THEN -Float64Magnitude(-n) ELSE Float64Magnitude(n)

\* int64(f): truncation toward zero
Int64(f) == IF f < 0 THEN -((-f) \div 10) ELSE f \div 10

\* the byte order of the characters of the model (ASCII)
Ascii == <<"\t", "\n", "\r", " ", "!", "\"", "#", "'", "(", ")", "+", "-", ".",
           "0", "1", "2", "3", "4", "5", "6", "7", "8", "9", ":", "<", "=", ">",
           "[", "]", "a", "b", "h", "k", "m", "r", "s", "u", "v", "w", "z">>

\* the position of c in the sequence seq
PosIn(seq, c) == CHOOSE i \in 1..Len(seq) : seq[i] = c

Ord(c) == PosIn(Ascii, c)

RECURSIVE StrLess(_, _)
\* s < t on Go strings
StrLess(s, t) ==
    IF t = <<>> THEN FALSE
    ELSE IF s = <<>> THEN TRUE
    ELSE IF s[1] = t[1] THEN StrLess(Tail(s), Tail(t))
    ELSE Ord(s[1]) < Ord(t[1])

\* internal/fmtsort: integer keys by value, string keys by bytes; keys of
\* different types are ordered by their type descriptors, here int first
KeyLess(a, b) ==
    IF a.kind # b.kind THEN a.kind = "int"
    ELSE IF a.kind = "int" THEN a.val < b.val
    ELSE StrLess(a.val, b.val)

\* the key of ks that sorts first
FirstKey(ks) == CHOOSE k \in ks : \A o \in ks \ {k} : KeyLess(k, o)

RECURSIVE SortKeys(_)
RECURSIVE SortKeysFrom(_, _)
SortKeys(ks) == IF ks = {} THEN <<>> ELSE SortKeysFrom(ks, FirstKey(ks))

SortKeysFrom(ks, m) == <<m>> \o SortKeys(ks \ {m})

\* the entries of a mapping of either Go type, keyed by their key values
Entries(val) ==
    IF val.kind = "strmap" THEN [k \in {VStr(s) : s \in DOMAIN val.val} |-> val.val[k.val]]
    ELSE val.val

RECURSIVE Sprint(_)
RECURSIVE SprintMap(_, _)
\* fmt.Sprintf("%v", val)
Sprint(val) ==
    CASE val.kind = "nil"     -> <<"<", "n", "i", "l", ">">>
      [] val.kind = "bool"    -> IF val.val THEN <<"t", "r", "u", "e">> ELSE <<"f", "a", "l", "s", "e">>
      [] val.kind = "string"  -> val.val
      [] val.kind = "int"     -> FormatInt(val.val)
      [] val.kind = "float64" -> FormatFloat(val.val)
      [] val.kind = "slice"   ->
            <<"[">> \o Join([i \in 1..Len(val.val) |-> Sprint(val.val[i])], <<" ">>) \o <<"]">>
      [] val.kind \in {"strmap", "genmap"} ->
            SprintMap(Entries(val), SortKeys(DOMAIN Entries(val)))

\* a map is printed with its keys in sorted order
SprintMap(m, ks) ==
    <<"m", "a", "p", "[">>
    \o Join([i \in 1..Len(ks) |-> Sprint(ks[i]) \o <<":">> \o Sprint(m[ks[i]])], <<" ">>)
    \o <<"]">>

\* len(s) of a Go string that is only tested for emptiness
IsEmptyText(s) == s = EmptyText

RECURSIVE Canon(_)
\* what the text yaml.Marshal(v) emits decodes to: a float64 with no
\* fraction is written without one ("5") and read back as an int, unless
\* it is written with an exponent ("9.007199254740992e+15"), which is read
\* back as a float64; a mapping whose keys are all strings is read back as
\* map[string]interface{}
Canon(val) ==
    CASE val.kind = "float64" ->
            IF val.val % 10 = 0 /\ val.val < 10 * Pow53 /\ val.val > -(10 * Pow53)
            THEN VInt(val.val \div 10) ELSE val
      [] val.kind = "slice"   -> VSlice([i \in 1..Len(val.val) |-> Canon(val.val[i])])
      [] val.kind = "strmap"  -> VMap([k \in DOMAIN val.val |-> Canon(val.val[k])])
      [] val.kind = "genmap"  ->
            IF \A k \in DOMAIN val.val : k.kind = "string"
            THEN VMap([s \in {k.val : k \in DOMAIN val.val} |-> Canon(val.val[VStr(s)])])
            ELSE VGen([k \in DOMAIN val.val |-> Canon(val.val[k])])
      [] OTHER             -> val

\* yaml.Marshal(v): never fails on a decoded tree
Marshal(val) == YamlText(Canon(val), "block")

\* yaml.Unmarshal([]byte(s), &root): root stays nil on an error and on an
\* empty document
Unmarshal(s) ==
    CASE s.form = "yaml" -> [err |-> FALSE, root |-> s.text.tree]
      [] s.form = "bad"  -> [err |-> TRUE, root |-> Nil]
      [] s = EmptyText   -> [err |-> FALSE, root |-> Nil]

(***************************************************************************)
(* Result                                                                  *)
(***************************************************************************)
\* Result{}: the zero Result, of Type Null
NullResult == [Type |-> "Null", Raw |-> EmptyText, Str |-> <<>>, Num |-> 0, Index |-> 0]

\* Result{Type: t, Raw: raw, Str: str, Num: num}
MkResult(t, raw, str, num) == [Type |-> t, Raw |-> raw, Str |-> str, Num |-> num, Index |-> 0]

Exists(t) == t.Type # "Null"

\* Result.Value
Value(t) ==
    IF t.Type = "YAML" THEN Unmarshal(t.Raw).root
    ELSE CASE t.Type = "False"  -> VBool(FALSE)
           [] t.Type = "Number" -> VFloat(t.Num)
           [] t.Type = "String" -> VStr(t.Str)
           [] t.Type = "True"   -> VBool(TRUE)
           [] OTHER             -> Nil

makeResult(value) ==
    IF value = Nil THEN NullResult
    ELSE CASE value.kind = "bool"    ->
                IF value.val THEN MkResult("True", EmptyText, <<>>, 0)
                ELSE MkResult("False", EmptyText, <<>>, 0)
           [] value.kind = "string"  -> MkResult("String", EmptyText, value.val, 0)
           [] value.kind = "int"     ->
                MkResult("Number", Chars(FormatInt(value.val)), <<>>, Float64(value.val))
           [] value.kind = "float64" ->
                MkResult("Number", Chars(FormatFloat(value.val)), <<>>, value.val)
           [] OTHER               -> MkResult("YAML", Marshal(value), <<>>, 0)

(***************************************************************************)
(* Array queries: #(key OP value)                                          *)
(***************************************************************************)
\* compareNumbers: 1 if val > expected, -1 if val < expected, 0 if equal
\* or not comparable
valFloatOf(val) ==
    CASE val.kind = "int"     -> [err |-> FALSE, f |-> Float64(val.val)]
      [] val.kind = "float64" -> [err |-> FALSE, f |-> val.val]
      [] OTHER                -> ParseFloat(Sprint(val))

\* the comparison of the two conversions
compareFloats(valFloat, expectedFloat) ==
    IF valFloat.err THEN 0
    ELSE IF expectedFloat.err THEN 0
    ELSE IF valFloat.f > expectedFloat.f THEN 1
    ELSE IF valFloat.f < expectedFloat.f THEN -1
    ELSE 0

compareNumbers(val, expectedStr) == compareFloats(valFloatOf(val), ParseFloat(expectedStr))

\* matchesCondition, given valStr, the text of val, and cmp, the outcome of
\* compareNumbers(val, expected)
conditionHolds(valStr, cmp, operator, expected) ==
    CASE operator = <<"=">>      -> valStr = expected
      [] operator = <<"!", "=">> -> valStr # expected
      [] operator = <<">">>      -> cmp > 0
      [] operator = <<"<">>      -> cmp < 0
      [] operator = <<">", "=">> -> cmp >= 0
      [] operator = <<"<", "=">> -> cmp <= 0
      [] OTHER                   -> FALSE

matchesCondition(val, operator, expected) ==
    conditionHolds(Sprint(val), compareNumbers(val, expected), operator, expected)

\* the operators, in the order handleArrayQuery tries them
operators == << <<">", "=">>, <<"<", "=">>, <<"!", "=">>, <<">">>, <<"<">>, <<"=">> >>

\* the first operator of the list that the query contains, "" when none
firstOperator(query) ==
    LET i == FirstOf({j \in 1..Len(operators) : Contains(query, operators[j])})
    IN  IF i = 0 THEN <<>> ELSE operators[i]

\* key and value of a query split in two at its operator
keyValue(op, parts) ==
    [key      |-> TrimSpace(parts[1]),
     operator |-> op,
     value    |-> Trim(TrimSpace(parts[2]), {"\"", "'"})]

\* the query split at the operator op
parseWith(query, op) ==
    IF op = <<>> THEN [key |-> <<>>, operator |-> <<>>, value |-> <<>>]
    ELSE keyValue(op, SplitN2(query, op))

\* the parse of a query: the first operator of the list that the query
\* contains splits it; operator stays "" when it contains none
parseQuery(query) == parseWith(query, firstOperator(query))

\* does the item of the array satisfy the parsed query
itemMatches(item, q) ==
    IF item.kind = "strmap"
    THEN q.key \in DOMAIN item.val /\ matchesCondition(item.val[q.key], q.operator, q.value)
    ELSE q.key = <<>> /\ q.operator # <<>> /\ matchesCondition(item, q.operator, q.value)

\* queryArray that reads a query without an operator as a test for the key
queryArrayBareKey(arr, q) ==
    IF q.operator = <<>>
    THEN LET hit == FirstOf({i \in 1..Len(arr) : arr[i].kind = "strmap"})
         IN  IF hit = 0 THEN NullResult ELSE makeResult(arr[hit])
    ELSE LET hit == FirstOf({i \in 1..Len(arr) : itemMatches(arr[i], q)})
         IN  IF hit = 0 THEN NullResult ELSE makeResult(arr[hit])

\* the Result of the first of the matching items, at index hit (0: none)
firstMatch(arr, hit) == IF hit = 0 THEN NullResult ELSE makeResult(arr[hit])

\* the loop of handleArrayQuery over arr with the parsed query q
queryArray(arr, q) ==
    IF q.operator = <<>> THEN NullResult
    ELSE firstMatch(arr, FirstOf({i \in 1..Len(arr) : itemMatches(arr[i], q)}))

handleArrayQuery(current, query) ==
    IF current.kind # "slice" THEN NullResult
    ELSE queryArray(current.val, parseQuery(query))

(***************************************************************************)
(* getByPath and handleArrayOperation                                      *)
(***************************************************************************)
RECURSIVE getByPath(_, _)
RECURSIVE walk(_, _, _)
RECURSIVE handleArrayOperation(_, _)

\* handleArrayOperation without the Exists() filter: every element contributes
handleArrayOperationKeepAll(current, p) ==
    IF current.kind # "slice" THEN NullResult
    ELSE IF p = <<>> THEN makeResult(current)
    ELSE makeResult(VSlice([i \in 1..Len(current.val) |-> Value(getByPath(current.val[i], p))]))

\* handleArrayOperation that reports an empty collection as Null
handleArrayOperationNullWhenEmpty(current, p) ==
    IF current.kind # "slice" THEN NullResult
    ELSE IF p = <<>> THEN makeResult(current)
    ELSE LET arr     == current.val
             kept    == SelectSeq([i \in 1..Len(arr) |-> i], LAMBDA i : Exists(getByPath(arr[i], p)))
             results == [j \in 1..Len(kept) |-> Value(getByPath(arr[kept[j]], p))]
         IN  IF results = <<>> THEN NullResult ELSE makeResult(VSlice(results))

\* handleArrayOperation: #.key, the values of key in the elements of an array
handleArrayOperation(current, p) ==
    IF current.kind # "slice" THEN NullResult
    ELSE IF p = <<>> THEN makeResult(current)
    ELSE LET arr         == current.val
             itemResult  == [i \in 1..Len(arr) |-> getByPath(arr[i], p)]
             kept        == SelectSeq([i \in 1..Len(arr) |-> i], LAMBDA i : Exists(itemResult[i]))
             results     == [j \in 1..Len(kept) |-> Value(itemResult[kept[j]])]
         IN  makeResult(VSlice(results))

\* the probe of a part that starts with '#': is it a key of the mapping
hasLiteralKey(current, part) == current.kind = "strmap" /\ part \in DOMAIN current.val

\* indexElem with a negative index counted from the end of the array
indexElemWrap(current, idx) ==
    IF current.kind = "slice"
    THEN LET n == Len(current.val)
             j == IF idx < 0 THEN idx + n ELSE idx
         IN  IF j < 0 \/ j >= n THEN [ok |-> FALSE, node |-> Nil]
             ELSE [ok |-> TRUE, node |-> current.val[j + 1]]
    ELSE [ok |-> FALSE, node |-> Nil]

\* indexElem that takes the index for a key when current is no array
indexElemOrKey(current, idx) ==
    CASE current.kind = "slice" ->
            IF idx < 0 \/ idx >= Len(current.val) THEN [ok |-> FALSE, node |-> Nil]
            ELSE [ok |-> TRUE, node |-> current.val[idx + 1]]
      [] current.kind = "strmap" ->
            IF FormatInt(idx) \in DOMAIN current.val
            THEN [ok |-> TRUE, node |-> current.val[FormatInt(idx)]]
            ELSE [ok |-> FALSE, node |-> Nil]
      [] OTHER -> [ok |-> FALSE, node |-> Nil]

\* the array index step: the element at idx, or no element
indexElem(current, idx) ==
    IF current.kind = "slice"
    THEN IF idx < 0 \/ idx >= Len(current.val) THEN [ok |-> FALSE, node |-> Nil]
         ELSE [ok |-> TRUE, node |-> current.val[idx + 1]]
    ELSE [ok |-> FALSE, node |-> Nil]

\* mapLookup that reads a missing key as the zero value, as a Go map does
mapLookupDefault(current, part) ==
    CASE current.kind = "strmap" ->
            IF part \in DOMAIN current.val THEN [ok |-> TRUE, node |-> current.val[part]]
            ELSE [ok |-> TRUE, node |-> VStr(<<>>)]
      [] current.kind = "genmap" ->
            IF VStr(part) \in DOMAIN current.val THEN [ok |-> TRUE, node |-> current.val[VStr(part)]]
            ELSE [ok |-> TRUE, node |-> VStr(<<>>)]
      [] OTHER -> [ok |-> FALSE, node |-> Nil]

\* the map access step: the value of the key part, or no value
mapLookup(current, part) ==
    CASE current.kind = "strmap" ->
            IF part \in DOMAIN current.val THEN [ok |-> TRUE, node |-> current.val[part]]
            ELSE [ok |-> FALSE, node |-> Nil]
      [] current.kind = "genmap" ->
            IF VStr(part) \in DOMAIN current.val THEN [ok |-> TRUE, node |-> current.val[VStr(part)]]
            ELSE [ok |-> FALSE, node |-> Nil]
      [] OTHER -> [ok |-> FALSE, node |-> Nil]

\* the length of the node a final '#' stands on
lengthOf(current) ==
    CASE current.kind = "slice"  -> MkResult("Number", EmptyText, <<>>, Float64(Len(current.val)))
      [] current.kind = "strmap" -> MkResult("Number", EmptyText, <<>>, Float64(Cardinality(DOMAIN current.val)))
      [] OTHER                   -> NullResult

\* afterQuery that returns the match and drops the parts that follow
afterQueryDrop(result, more, rest) == result

\* what follows a query: result is what handleArrayQuery returned, more
\* tells whether parts follow the query, rest is these parts joined
afterQuery(result, more, rest) ==
    IF ~Exists(result) THEN result
    ELSE IF more
    THEN LET parsed == IF result.Type = "YAML" THEN Unmarshal(result.Raw)
                       ELSE [err |-> FALSE, root |-> Value(result)]
         IN  IF parsed.err THEN NullResult ELSE getByPath(parsed.root, rest)
    ELSE result

\* the loop of getByPath over parts, at part i (from 1) with the node current
walk(parts, i, current) ==
    IF i > Len(parts) THEN makeResult(current)
    ELSE LET part == parts[i]
             rest == Join(SubSeq(parts, i + 1, Len(parts)), <<".">>)
         IN
         IF part = <<>> THEN walk(parts, i + 1, current)
         ELSE IF part = <<"#">> THEN
            IF i = Len(parts) THEN lengthOf(current)
            ELSE handleArrayOperation(current, rest)
         ELSE IF HasPrefix(part, <<"#", "(">>) /\ HasSuffix(part, <<")">>) THEN
            afterQuery(handleArrayQuery(current, SubSeq(part, 3, Len(part) - 1)), i < Len(parts), rest)
         ELSE IF HasPrefix(part, <<"#">>) THEN
            IF hasLiteralKey(current, part) THEN walk(parts, i + 1, current.val[part])
            ELSE handleArrayOperation(current, Tail(part))
         ELSE IF ~Atoi(part).err THEN
            LET e == indexElem(current, Atoi(part).n)
            IN  IF e.ok THEN walk(parts, i + 1, e.node) ELSE NullResult
         ELSE LET e == mapLookup(current, part)
              IN  IF e.ok THEN walk(parts, i + 1, e.node) ELSE NullResult

getByPath(root, p) ==
    IF p = <<>>
    THEN IF root = Nil THEN NullResult
         ELSE IF root.kind \in {"string", "int", "float64", "bool"} THEN makeResult(root)
         ELSE MkResult("YAML", Marshal(root), <<>>, 0)
    ELSE walk(Split(p, <<".">>), 1, root)

(***************************************************************************)
(* The public entry points                                                 *)
(***************************************************************************)
\* Get that re-encodes the decoded root for the empty path
GetReencode(yamlStr, p) ==
    IF IsEmptyText(yamlStr) THEN NullResult
    ELSE LET u == Unmarshal(yamlStr)
         IN  IF u.err THEN NullResult ELSE getByPath(u.root, p)

Get(yamlStr, p) ==
    IF IsEmptyText(yamlStr) THEN NullResult
    ELSE LET u == Unmarshal(yamlStr)
         IN  IF u.err THEN NullResult
             ELSE IF p = <<>> THEN MkResult("YAML", yamlStr, <<>>, 0)
             ELSE getByPath(u.root, p)

Parse(yamlStr) ==
    IF IsEmptyText(yamlStr) THEN NullResult
    ELSE IF Unmarshal(yamlStr).err THEN NullResult
    ELSE MkResult("YAML", yamlStr, <<>>, 0)

\* Result.Get that resolves the first segment of the path only
ResultGetFirstPart(t, p) ==
    IF t.Type # "YAML" THEN NullResult ELSE Get(t.Raw, Head(Split(p, <<".">>)))

\* Result.Get
ResultGet(t, p) == IF t.Type # "YAML" THEN NullResult ELSE Get(t.Raw, p)

\* Result.Array: isNil tells the nil slice from an empty one
ResultArray(t) ==
    IF t.Type # "YAML" THEN [isNil |-> TRUE, items |-> <<>>]
    ELSE LET u == Unmarshal(t.Raw)
         IN  IF u.err \/ u.root.kind # "slice" THEN [isNil |-> TRUE, items |-> <<>>]
             ELSE [isNil |-> FALSE, items |-> [i \in 1..Len(u.root.val) |-> makeResult(u.root.val[i])]]

\* Result.Map
ResultMap(t) ==
    IF t.Type # "YAML" THEN [isNil |-> TRUE, items |-> <<>>]
    ELSE LET u == Unmarshal(t.Raw)
         IN  IF u.err \/ u.root.kind # "strmap" THEN [isNil |-> TRUE, items |-> <<>>]
             ELSE [isNil |-> FALSE, items |-> [k \in DOMAIN u.root.val |-> makeResult(u.root.val[k])]]

\* Result.ForEach: the (key, value) pairs the iterator can be called with
ResultForEach(t) ==
    IF ~Exists(t) THEN {}
    ELSE IF t.Type # "YAML" THEN {}
    ELSE LET u == Unmarshal(t.Raw)
         IN  IF u.err THEN {}
             ELSE CASE u.root.kind = "strmap" ->
                          {<<MkResult("String", EmptyText, k, 0), makeResult(u.root.val[k])>> :
                              k \in DOMAIN u.root.val}
                    [] u.root.kind = "slice" ->
                          {<<MkResult("Number", EmptyText, <<>>, Float64(i - 1)), makeResult(u.root.val[i])>> :
                              i \in 1..Len(u.root.val)}
                    [] OTHER -> {}

(***************************************************************************)
(* The coercions of a Result.  An int64 or uint64 is its decimal text, so  *)
(* that the 64-bit limits are the real ones; strconv.ParseInt and          *)
(* ParseUint return the nearest limit along with a range error.            *)
(***************************************************************************)
\* math.MaxInt64, the magnitude of math.MinInt64, math.MaxUint64
MaxInt64 == <<"9", "2", "2", "3", "3", "7", "2", "0", "3", "6", "8", "5", "4", "7", "7", "5", "8", "0", "7">>

MinInt64Magnitude == <<"9", "2", "2", "3", "3", "7", "2", "0", "3", "6", "8", "5", "4", "7", "7", "5", "8", "0", "8">>

MaxUint64 == <<"1", "8", "4", "4", "6", "7", "4", "4", "0", "7", "3", "7", "0", "9", "5", "5", "1", "6", "1", "5">>

RECURSIVE StripZeros(_)
\* decimal digits without their leading zeros
StripZeros(d) == IF Len(d) > 1 /\ d[1] = "0" THEN StripZeros(Tail(d)) ELSE d

\* a < b on decimal digits without leading zeros
DecLess(a, b) == Len(a) < Len(b) \/ (Len(a) = Len(b) /\ StrLess(a, b))

\* the value of the magnitude m under the sign, or the limit it exceeds
ParseIntRange(neg, m, limit) ==
    IF DecLess(limit, m) THEN [err |-> "range", n |-> IF neg THEN <<"-">> \o limit ELSE limit]
    ELSE [err |-> "nil", n |-> IF neg /\ m # <<"0">> THEN <<"-">> \o m ELSE m]

ParseIntBody(neg, body) ==
    IF AllDigits(body)
    THEN ParseIntRange(neg, StripZeros(body), IF neg THEN MinInt64Magnitude ELSE MaxInt64)
    ELSE [err |-> "syntax", n |-> <<"0">>]

\* strconv.ParseInt(s, 10, 64)
ParseInt(s) == IF IsSigned(s) THEN ParseIntBody(s[1] = "-", Tail(s)) ELSE ParseIntBody(FALSE, s)

\* strconv.ParseUint(s, 10, 64): no sign is permitted
ParseUint(s) ==
    IF AllDigits(s) THEN ParseIntRange(FALSE, StripZeros(s), MaxUint64)
    ELSE [err |-> "syntax", n |-> <<"0">>]

\* strings.ToLower on the letters of the model
Upper == <<"A", "E", "F", "L", "N", "O", "R", "S", "T", "U", "Y">>

Lower == <<"a", "e", "f", "l", "n", "o", "r", "s", "t", "u", "y">>

ToLowerChar(c) == IF \E i \in 1..Len(Upper) : Upper[i] = c THEN Lower[PosIn(Upper, c)] ELSE c

ToLower(s) == [i \in 1..Len(s) |-> ToLowerChar(s[i])]

\* Result.String whose default is the text of the zero float
ResultStringZeroDefault(t) ==
    CASE t.Type = "String" -> Chars(t.Str)
      [] t.Type = "YAML"   -> t.Raw
      [] t.Type = "True"   -> Chars(<<"t", "r", "u", "e">>)
      [] t.Type = "False"  -> Chars(<<"f", "a", "l", "s", "e">>)
      [] OTHER             -> IF t.Raw = EmptyText THEN Chars(FormatFloat(t.Num)) ELSE t.Raw

\* Result.String
ResultString(t) ==
    CASE t.Type = "String" -> Chars(t.Str)
      [] t.Type = "Number" -> IF t.Raw = EmptyText THEN Chars(FormatFloat(t.Num)) ELSE t.Raw
      [] t.Type = "YAML"   -> t.Raw
      [] t.Type = "True"   -> Chars(<<"t", "r", "u", "e">>)
      [] t.Type = "False"  -> Chars(<<"f", "a", "l", "s", "e">>)
      [] OTHER             -> EmptyText

\* Result.Bool on a String, given the text in lower case: the YAML words,
\* then strconv.ParseBool, whose error is dropped
BoolOfLower(lower) ==
    lower \in {<<"t", "r", "u", "e">>, <<"y", "e", "s">>, <<"o", "n">>, <<"1">>, <<"t">>}

\* Result.Bool
ResultBool(t) ==
    CASE t.Type = "True"   -> TRUE
      [] t.Type = "String" -> BoolOfLower(ToLower(t.Str))
      [] t.Type = "Number" -> t.Num # 0
      [] OTHER             -> FALSE

\* Result.Int on a Number, given the parse of its trimmed raw text
IntOfNumber(t, parsed) ==
    IF t.Raw # EmptyText /\ parsed.err = "nil" THEN parsed.n ELSE FormatInt(Int64(t.Num))

\* Result.Int
ResultInt(t) ==
    CASE t.Type = "True"   -> <<"1">>
      [] t.Type = "String" -> ParseInt(t.Str).n
      [] t.Type = "Number" -> IntOfNumber(t, ParseInt(TrimSpace(t.Raw.text)))
      [] OTHER             -> <<"0">>

\* Result.Uint
ResultUint(t) ==
    CASE t.Type = "True"   -> <<"1">>
      [] t.Type = "String" -> ParseUint(t.Str).n
      [] t.Type = "Number" -> IF t.Num < 0 THEN <<"0">> ELSE FormatInt(Int64(t.Num))
      [] OTHER             -> <<"0">>

\* Result.Float
ResultFloat(t) ==
    CASE t.Type = "True"   -> Float64(1)
      [] t.Type = "String" -> ParseFloat(t.Str).f
      [] t.Type = "Number" -> t.Num
      [] OTHER             -> 0

\* Valid
Valid(yamlStr) == ~Unmarshal(yamlStr).err

(***************************************************************************)
(* The documents and paths of the model                                    *)
(***************************************************************************)
\* all sequences over S of length at most n
SeqsUpTo(S, n) == UNION {[1..m -> S] : m \in 0..n}

\* the mapping with the given <<key, value>> pairs
MapOf(pairs) == [x \in {pr[1] : pr \in pairs} |-> (CHOOSE pr \in pairs : pr[1] = x)[2]]

StrMap(pairs) == VMap(MapOf(pairs))

GenMap(pairs) == VGen(MapOf(pairs))

\* the elements of the generated sequences
Elems ==
    { StrMap({<< <<"k">>, VStr(<<"v">>) >>}),
      StrMap({<< <<"k">>, VStr(<<"v">>) >>, << <<"v">>, VSlice(<<VInt(1), Nil>>) >>}),
      StrMap({<< <<"k">>, VInt(1) >>, << <<"v">>, VStr(<<"w">>) >>}),
      StrMap({<< <<"k">>, Nil >>}),
      GenMap({<< VInt(1), VStr(<<"w">>) >>, << VStr(<<"k">>), VStr(<<"v">>) >>}),
      VInt(2) }

\* sequences that mix in the rarer elements
MoreArrays ==
    { <<VStr(<<"v">>), Nil, VFloat(15), VBool(TRUE)>>,
      <<StrMap({<< <<"v">>, VInt(2) >>}), StrMap({<< <<"#", "k">>, VStr(<<"w">>) >>, << <<"k">>, VStr(<<"2">>) >>})>>,
      <<StrMap({<< <<"k">>, VFloat(20) >>}), StrMap({<< <<"k">>, VStr(<<>>) >>}), StrMap({<< <<"k">>, VBool(FALSE) >>})>>,
      <<VSlice(<<VInt(1), VInt(2)>>), VSlice(<<>>), StrMap({})>>,
      <<VInt(1), VInt(2), VStr(<<"2">>), VFloat(25)>>,
      <<StrMap({<< <<"k">>, VInt(0) >>}), VInt(0)>>,
      <<StrMap({<< <<"k">>, VStr(<<"v">>) >>}), StrMap({<< <<"k">>, VStr(<<">", "1">>) >>}),
        StrMap({<< <<"k">>, VStr(<<"a", "=", "b">>) >>})>>,
      <<StrMap({<< <<"k">>, VInt(Pow53 + 1) >>}), VInt(Pow53 + 3), StrMap({<< <<"k">>, VInt(5) >>})>> }

Arrays == SeqsUpTo(Elems, MaxLen) \cup MoreArrays

\* the root mapping of a generated document: the sequence under "a", and
\* fixed neighbours of each kind
RootOf(arr) ==
    StrMap({ << <<"a">>, VSlice(arr) >>,
             << <<"m">>, StrMap({<< <<"k">>, VStr(<<"v">>) >>, << <<"#", "k">>, VInt(1) >>,
                                 << <<"1">>, VStr(<<"w">>) >>, << <<"z">>, Nil >>}) >>,
             << <<"g">>, GenMap({<< VInt(1), VStr(<<"v">>) >>, << VStr(<<"k">>), VInt(2) >>,
                                 << VStr(<<"#", "k">>), VStr(<<"w">>) >>}) >>,
             << <<"s">>, VStr(<<"v">>) >> })

\* hand-written documents (style "flow"), a document as yaml.Marshal writes
\* it, documents whose root is no mapping, and texts that do not parse
Docs ==
    {YamlText(RootOf(arr), "flow") : arr \in Arrays}
    \cup {YamlText(VSlice(arr), "flow") : arr \in MoreArrays}
    \cup {YamlText(RootOf(<<>>), "block"), YamlText(VStr(<<"v">>), "flow"),
          YamlText(Nil, "flow"), BadText, EmptyText}

Query(key, op, lit) == <<"#", "(">> \o key \o op \o lit \o <<")">>

QueryToks ==
    {Query(key, operators[i], lit) :
        key \in {<<>>, <<"k">>, <<"v">>}, i \in 1..Len(operators),
        lit \in {<<"v">>, <<"1">>, <<"2">>, <<"z">>}}

IdxToks == {FormatInt(i) : i \in -1..MaxIdx}

KeyToks == {<<"k">>, <<"v">>, <<"z">>, <<"#", "k">>, <<"#", "z">>}

\* the tokens that follow a root key
Toks1 == KeyToks \cup IdxToks \cup QueryToks \cup {<<"#">>, <<>>}

\* the tokens a second token follows
Heads2 == {<<"#">>, <<"#", "k">>, <<"#", "v">>, <<"0">>, <<"1">>, <<"k">>, <<>>,
           Query(<<"k">>, <<"=">>, <<"v">>), Query(<<"k">>, <<">", "=">>, <<"1">>),
           Query(<<>>, <<"!", "=">>, <<"z">>), Query(<<"v">>, <<"=">>, <<"z">>)}

Toks2 == {<<"k">>, <<"v">>, <<"z">>, <<"#">>, <<"0">>, <<"-", "1">>, <<>>, <<"#", "k">>,
          Query(<<>>, <<"=">>, <<"1">>)}

RootKeys == {<<"a">>, <<"m">>, <<"g">>, <<"s">>, <<"z">>}

\* queries whose literal is a decimal number
DecimalToks ==
    {Query(<<>>, <<">">>, <<"1", ".", "5">>), Query(<<"k">>, <<"=">>, <<"2", ".", "0">>),
     Query(<<"k">>, <<"<", "=">>, <<"2", ".", "5">>)}

\* queries without an operator: "#()", a bare key, a bare number
BareToks == {Query(<<>>, <<>>, <<>>), Query(<<"k">>, <<>>, <<>>), Query(<<"1">>, <<>>, <<>>)}

\* queries whose literal is quoted
QuotedToks ==
    {Query(<<"k">>, <<"=">>, <<"\"", "v", "\"">>), Query(<<"k">>, <<"=">>, <<"\"", ">", "1", "\"">>),
     Query(<<"k">>, <<"=">>, <<"'", "a", "=", "b", "'">>)}

Paths ==
    {<<>>, <<".">>} \cup RootKeys \cup Toks1 \cup DecimalToks \cup BareToks \cup QuotedToks
    \cup {Join(<<<<"a">>, t>>, <<".">>) : t \in DecimalToks \cup BareToks \cup QuotedToks}
    \cup {Join(<<<<"a">>, t, <<"k">>>>, <<".">>) : t \in BareToks}
    \cup {Join(<<r, t>>, <<".">>) : r \in RootKeys \ {<<"a">>}, t \in KeyToks \cup {<<"#">>, <<"1">>}}
    \cup {Join(<<<<"a">>, t>>, <<".">>) : t \in Toks1}
    \cup {Join(<<<<"a">>, h, t>>, <<".">>) : h \in Heads2, t \in Toks2}
    \cup {Join(<<<<"a">>, <<"#">>, <<"v">>, t>>, <<".">>) : t \in {<<"#">>, <<"0">>}}

\* the paths of a chained Result.Get
SubPaths == {<<>>, <<"#">>, <<"k">>, <<"0">>, <<"#", ".", "k">>, <<"v", ".", "0">>,
             Query(<<"k">>, <<"=">>, <<"v">>)}

(***************************************************************************)
(* The state machine: a caller holds a document, resolves a path in it     *)
(* with Get or wraps it with Parse, and may chain a Result.Get on what it  *)
(* got.                                                                    *)
(***************************************************************************)
\* nothing returned yet
NoOut == [fn |-> "", ret |-> <<>>]

\* the goroutines that call Get at the same time
NumGoroutines == 2

Goroutines == 1..NumGoroutines

\* a goroutine that has not called Get: at is its place in Get, arg the
\* path it passed, root the local variable of Get, ret what Get returned
Idle == [at |-> "idle", arg |-> <<>>, root |-> Nil, ret |-> NullResult]

Init ==
    /\ doc \in Docs
    /\ path = <<>>
    /\ pc = "start"
    /\ res = NullResult
    /\ sub = <<>>
    /\ res2 = NullResult
    /\ out = NoOut
    /\ calls = <<>>
    /\ gs = [g \in Goroutines |-> Idle]
    /\ stack = <<>>
    /\ steps = 0

CallGet(p) ==
    /\ pc = "start"
    /\ path' = p
    /\ res' = Get(doc, p)
    /\ pc' = "got"
    /\ UNCHANGED <<doc, sub, res2, out, calls, gs, stack, steps>>

CallParse ==
    /\ pc = "start"
    /\ res' = Parse(doc)
    /\ pc' = "parsed"
    /\ UNCHANGED <<doc, path, sub, res2, out, calls, gs, stack, steps>>

CallValid ==
    /\ pc = "start"
    /\ out' = [fn |-> "Valid", ret |-> Valid(doc)]
    /\ pc' = "validated"
    /\ UNCHANGED <<doc, path, res, sub, res2, calls, gs, stack, steps>>

CallResultGet(q) ==
    /\ pc \in {"got", "parsed", "held"}
    /\ sub' = q
    /\ res2' = ResultGet(res, q)
    /\ pc' = "chained"
    /\ UNCHANGED <<doc, path, res, out, calls, gs, stack, steps>>

Next ==
    \/ \E p \in Paths : CallGet(p)
    \/ CallParse
    \/ CallValid
    \/ \E q \in SubPaths : CallResultGet(q)

Spec == Init /\ [][Next]_vars

(***************************************************************************)
(* The second state machine: a caller holds a Result, one it built itself  *)
(* or one it got from a document, and applies one of its coercions, chains *)
(* a Result.Get, or runs ForEach, whose iterator answers as it likes.      *)
(***************************************************************************)
\* the texts of String Results
Strs ==
    { <<>>, <<"5">>, <<"-", "5">>, <<"+", "5">>, <<" ", "5">>, <<"5", " ">>, <<"0", "0", "7">>,
      <<"v">>, <<"1", ".", "5">>, <<"-">>, <<"1">>, <<"0">>, <<"T", "r", "u", "e">>,
      <<"Y", "E", "S">>, <<"o", "n">>, <<"t">>, <<"n", "o">>,
      MaxInt64, MinInt64Magnitude, <<"-">> \o MinInt64Magnitude,
      <<"-">> \o MinInt64Magnitude \o <<"0">>, MaxUint64, MaxUint64 \o <<"0">> }

\* the raw text and the float, in tenths, of Number Results
Nums ==
    { <<<<"5">>, 50>>, <<<<"7">>, 50>>, <<<<"-", "3">>, -30>>, <<<<"2", ".", "5">>, 25>>,
      <<<<"-", "2", ".", "5">>, -25>>, <<<<" ", "5", " ">>, 50>>, <<<<"x">>, 10>>,
      <<<<>>, 25>>, <<<<>>, -30>>, <<<<>>, 0>>, <<<<"0">>, 0>> }

\* the values of Container Results
Held ==
    { VSlice(<<VInt(1), VStr(<<"v">>), Nil>>), VSlice(<<VBool(FALSE)>>), VSlice(<<>>),
      StrMap({}), StrMap({<< <<"k">>, VStr(<<"v">>) >>, << <<"v">>, VInt(1) >>, << <<"z">>, Nil >>}),
      GenMap({<< VInt(1), VStr(<<"w">>) >>, << VStr(<<"k">>), VStr(<<"v">>) >>}),
      VSlice(<<StrMap({<< <<"k">>, VStr(<<"v">>) >>}), VSlice(<<VInt(2)>>)>>) }

Results ==
    {NullResult, MkResult("True", EmptyText, <<>>, 0), MkResult("False", EmptyText, <<>>, 0)}
    \cup {MkResult("String", EmptyText, s, 0) : s \in Strs}
    \cup {MkResult("Number", Chars(n[1]), <<>>, n[2]) : n \in Nums}
    \cup {makeResult(v) : v \in Held}
    \cup {Get(YamlText(StrMap({<< <<"a">>, v >>}), "flow"), <<"a">>) : v \in Held \cup {Nil}}
    \cup {Get(d, <<"a">>) : d \in {BadText, YamlText(StrMap({}), "flow")}}
    \cup {MkResult("YAML", d, <<>>, 0) :
              d \in {YamlText(VStr(<<"v">>), "flow"), YamlText(Nil, "flow"), BadText, EmptyText}}

\* the longest text Result.Float is applied to
MaxFloatLen == 8

\* a document with integers that float64 cannot hold, and the paths taken in it
BigDocs ==
    { YamlText(RootOf(<<VInt(1), VInt(Pow53 + 1), VInt(-(Pow53 + 3)),
                        StrMap({<< <<"k">>, VInt(Pow53 + 3) >>})>>), "flow") }

BigPaths ==
    { <<"a", ".", "0">>, <<"a", ".", "1">>, <<"a", ".", "2">>, <<"a", ".", "3", ".", "k">>,
      <<"a", ".", "3">>, <<"a", ".", "#">>,
      <<"a", ".">> \o Query(<<>>, <<">">>, <<"1">>),
      <<"a", ".">> \o Query(<<>>, <<">">>, <<"1">>) \o <<".">>,
      <<"a", ".">> \o Query(<<>>, <<"<">>, <<"0">>) \o <<".">>,
      <<"a", ".">> \o Query(<<>>, <<"=">>, <<"1">>) \o <<".">>,
      <<"a", ".">> \o Query(<<"k">>, <<">">>, <<"1">>) \o <<".", "k">> }

InitResult ==
    /\ \/ doc = EmptyText /\ path = <<>> /\ res \in Results
       \/ doc \in BigDocs /\ path \in BigPaths /\ res = Get(doc, path)
    /\ pc = "held"
    /\ sub = <<>>
    /\ res2 = NullResult
    /\ out = NoOut
    /\ calls = <<>>
    /\ gs = [g \in Goroutines |-> Idle]
    /\ stack = <<>>
    /\ steps = 0

CallString ==
    /\ pc = "held"
    /\ out' = [fn |-> "String", ret |-> ResultString(res)]
    /\ pc' = "returned"
    /\ UNCHANGED <<doc, path, res, sub, res2, calls, gs, stack, steps>>

CallBool ==
    /\ pc = "held"
    /\ out' = [fn |-> "Bool", ret |-> ResultBool(res)]
    /\ pc' = "returned"
    /\ UNCHANGED <<doc, path, res, sub, res2, calls, gs, stack, steps>>

CallInt ==
    /\ pc = "held"
    /\ out' = [fn |-> "Int", ret |-> ResultInt(res)]
    /\ pc' = "returned"
    /\ UNCHANGED <<doc, path, res, sub, res2, calls, gs, stack, steps>>

CallUint ==
    /\ pc = "held"
    /\ out' = [fn |-> "Uint", ret |-> ResultUint(res)]
    /\ pc' = "returned"
    /\ UNCHANGED <<doc, path, res, sub, res2, calls, gs, stack, steps>>

CallFloat ==
    /\ pc = "held"
    /\ Len(res.Str) <= MaxFloatLen
    /\ out' = [fn |-> "Float", ret |-> ResultFloat(res)]
    /\ pc' = "returned"
    /\ UNCHANGED <<doc, path, res, sub, res2, calls, gs, stack, steps>>

CallArray ==
    /\ pc = "held"
    /\ out' = [fn |-> "Array", ret |-> ResultArray(res)]
    /\ pc' = "returned"
    /\ UNCHANGED <<doc, path, res, sub, res2, calls, gs, stack, steps>>

CallMap ==
    /\ pc = "held"
    /\ out' = [fn |-> "Map", ret |-> ResultMap(res)]
    /\ pc' = "returned"
    /\ UNCHANGED <<doc, path, res, sub, res2, calls, gs, stack, steps>>

CallValue ==
    /\ pc = "held"
    /\ out' = [fn |-> "Value", ret |-> Value(res)]
    /\ pc' = "returned"
    /\ UNCHANGED <<doc, path, res, sub, res2, calls, gs, stack, steps>>

CallExists ==
    /\ pc = "held"
    /\ out' = [fn |-> "Exists", ret |-> Exists(res)]
    /\ pc' = "returned"
    /\ UNCHANGED <<doc, path, res, sub, res2, calls, gs, stack, steps>>

\* Result.ForEach up to its loop
CallForEach ==
    /\ pc = "held"
    /\ pc' = IF ResultForEach(res) = {} THEN "returned" ELSE "iterating"
    /\ out' = [fn |-> "ForEach", ret |-> <<>>]
    /\ UNCHANGED <<doc, path, res, sub, res2, calls, gs, stack, steps>>

\* the pairs the loop of Result.ForEach can come to next: a sequence is
\* ranged over by index, a map in an order of Go's choosing
NextPairs(t, done) ==
    IF Unmarshal(t.Raw).root.kind = "slice"
    THEN {kv \in ResultForEach(t) : kv[1].Num = Float64(Len(done))}
    ELSE {kv \in ResultForEach(t) : \A i \in 1..Len(done) : done[i].key # kv[1]}

\* one turn of the loop: the iterator is called and answers continue
Iterate(continue) ==
    /\ pc = "iterating"
    /\ \E kv \in NextPairs(res, calls) :
           /\ calls' = Append(calls, [key |-> kv[1], value |-> kv[2], continue |-> continue])
           /\ pc' = IF continue /\ NextPairs(res, calls') # {} THEN "iterating" ELSE "returned"
    /\ UNCHANGED <<doc, path, res, sub, res2, out, gs, stack, steps>>

NextResult ==
    \/ CallString
    \/ CallBool
    \/ CallInt
    \/ CallUint
    \/ CallFloat
    \/ CallArray
    \/ CallMap
    \/ CallValue
    \/ CallExists
    \/ CallForEach
    \/ \E continue \in BOOLEAN : Iterate(continue)
    \/ \E q \in SubPaths : CallResultGet(q)

SpecResult == InitResult /\ [][NextResult]_vars

(***************************************************************************)
(* The third state machine: goroutines call Get on the same document text  *)
(* and their steps interleave.  A call has the steps of Get: the length    *)
(* test and the declaration of root, yaml.Unmarshal into root, and the     *)
(* resolution of the path.                                                 *)
(***************************************************************************)
ConcDocs ==
    { YamlText(RootOf(<<StrMap({<< <<"k">>, VStr(<<"v">>) >>, << <<"v">>, VSlice(<<VInt(1), Nil>>) >>}), VInt(2)>>), "flow"),
      YamlText(VSlice(<<VInt(1), VInt(2), VStr(<<"2">>), VFloat(25)>>), "flow"),
      YamlText(VStr(<<"v">>), "flow"), BadText, EmptyText }

ConcPaths ==
    { <<>>, <<"#">>, <<"a", ".", "#">>, <<"a", ".", "0", ".", "k">>, <<"m", ".", "k">>, <<"z">>,
      <<"a", ".", "#", ".", "k">>, <<"a", ".">> \o Query(<<"k">>, <<"=">>, <<"v">>) \o <<".", "v", ".", "0">>,
      Query(<<>>, <<">">>, <<"1">>) }

\* var root interface{} in the call of goroutine g, which every other
\* goroutine sees: root is a variable of the package
declareShared(s, g, p) ==
    [h \in DOMAIN s |->
        IF h = g THEN [at |-> "declared", arg |-> p, root |-> Nil, ret |-> NullResult]
        ELSE [s[h] EXCEPT !.root = Nil]]

\* var root interface{} in the call of goroutine g with the path p
declare(s, g, p) ==
    [s EXCEPT ![g] = [at |-> "declared", arg |-> p, root |-> Nil, ret |-> NullResult]]

\* goroutine g returns r
return(s, g, r) == [s EXCEPT ![g].at = "done", ![g].ret = r]

\* Get up to the declaration of root
GoGet(g, p) ==
    /\ gs[g].at = "idle"
    /\ gs' = IF IsEmptyText(doc) THEN return([gs EXCEPT ![g].arg = p], g, NullResult)
             ELSE declare(gs, g, p)
    /\ UNCHANGED <<doc, path, pc, res, sub, res2, out, calls, stack, steps>>

\* yaml.Unmarshal([]byte(yamlStr), &root)
GoUnmarshal(g) ==
    /\ gs[g].at = "declared"
    /\ gs' = IF Unmarshal(doc).err THEN return(gs, g, NullResult)
             ELSE [gs EXCEPT ![g].at = "decoded", ![g].root = Unmarshal(doc).root]
    /\ UNCHANGED <<doc, path, pc, res, sub, res2, out, calls, stack, steps>>

\* the rest of Get: the whole document for the empty path, else getByPath
GoResolve(g) ==
    /\ gs[g].at = "decoded"
    /\ gs' = return(gs, g, IF gs[g].arg = <<>> THEN MkResult("YAML", doc, <<>>, 0)
                           ELSE getByPath(gs[g].root, gs[g].arg))
    /\ UNCHANGED <<doc, path, pc, res, sub, res2, out, calls, stack, steps>>

InitConc ==
    /\ doc \in ConcDocs
    /\ path = <<>>
    /\ pc = "concurrent"
    /\ res = NullResult
    /\ sub = <<>>
    /\ res2 = NullResult
    /\ out = NoOut
    /\ calls = <<>>
    /\ gs = [g \in Goroutines |-> Idle]
    /\ stack = <<>>
    /\ steps = 0

NextConc ==
    \/ \E g \in Goroutines, p \in ConcPaths : GoGet(g, p)
    \/ \E g \in Goroutines : GoUnmarshal(g)
    \/ \E g \in Goroutines : GoResolve(g)

SpecConc == InitConc /\ [][NextConc]_vars

(***************************************************************************)
(* The fourth state machine: the calls of getByPath that one Get makes.    *)
(* A frame of the stack is a call of getByPath: its root, its path, and    *)
(* how many of its own calls of getByPath it has made so far; steps is the *)
(* number of steps taken since Get was called.                             *)
(***************************************************************************)
\* the deepest stack of the model
MaxDepth == 4

\* the most steps that a Get of the model may take
MaxSteps == 15

CallPaths ==
    ConcPaths
    \cup { <<"a", ".", "#", "v", ".", "0">>, <<"a", ".", "#", ".", "v", ".", "#", ".", "k">>,
           <<"a", ".">> \o Query(<<"k">>, <<"=">>, <<"v">>) \o <<".", "v", ".", "#", "k">>,
           <<"a", ".">> \o Query(<<"k">>, <<"=">>, <<"v">>) \o <<".">>,
           <<"a", ".", "#", ".">>, <<".">>, <<"#", ".", "k">>, <<"#", "0">> }

\* strings.Join(parts[i:], "."): the parts from the current one on
remainingPathFromPart(parts, i) == Join(SubSeq(parts, i, Len(parts)), <<".">>)

\* strings.Join(parts[i+1:], "."): the parts after the current one
remainingPath(parts, i) == Join(SubSeq(parts, i + 1, Len(parts)), <<".">>)

\* the calls of getByPath in handleArrayOperation(current, p), in order
operationCalls(current, p) ==
    IF current.kind # "slice" \/ p = <<>> THEN <<>>
    ELSE [k \in 1..Len(current.val) |-> [node |-> current.val[k], p |-> p]]

\* the call of getByPath after a query that returned result
continuationCalls(result, more, rest) ==
    IF ~Exists(result) \/ ~more THEN <<>>
    ELSE IF result.Type = "YAML"
    THEN IF Unmarshal(result.Raw).err THEN <<>>
         ELSE <<[node |-> Unmarshal(result.Raw).root, p |-> rest]>>
    ELSE <<[node |-> Value(result), p |-> rest]>>

\* a call of getByPath(root, p): the value current of its loop, its path,
\* the index i of the part its loop is at (beyond the parts: the call is
\* about to return), and the number of calls of getByPath it has made
Frame(root, p) == [node |-> root, p |-> p, i |-> 1, made |-> 0]

\* strings.Split(path, ".") of a call; the empty path returns before it
partsOf(f) == IF f.p = <<>> THEN <<>> ELSE Split(f.p, <<".">>)

\* the part the loop of call f is at
partOf(f) == partsOf(f)[f.i]

\* the loop of f is at a part that returns after its calls of getByPath:
\* "#", a query, or '#' before a key that current does not hold
IsCallPart(f) ==
    /\ f.i <= Len(partsOf(f))
    /\ HasPrefix(partOf(f), <<"#">>)
    /\ \/ partOf(f) = <<"#">>
       \/ HasPrefix(partOf(f), <<"#", "(">>) /\ HasSuffix(partOf(f), <<")">>)
       \/ ~hasLiteralKey(f.node, partOf(f))

\* the calls of getByPath that f makes at its part, in order
callsAt(f) ==
    IF partOf(f) = <<"#">> THEN
        IF f.i = Len(partsOf(f)) THEN <<>>
        ELSE operationCalls(f.node, remainingPath(partsOf(f), f.i))
    ELSE IF HasPrefix(partOf(f), <<"#", "(">>) /\ HasSuffix(partOf(f), <<")">>) THEN
        continuationCalls(handleArrayQuery(f.node, SubSeq(partOf(f), 3, Len(partOf(f)) - 1)),
                          f.i < Len(partsOf(f)), remainingPath(partsOf(f), f.i))
    ELSE operationCalls(f.node, Tail(partOf(f)))

\* one turn of the loop of f at a part that makes no call of getByPath
turn(f) ==
    IF partOf(f) = <<>> THEN [f EXCEPT !.i = f.i + 1]
    ELSE IF HasPrefix(partOf(f), <<"#">>)
    THEN [f EXCEPT !.node = f.node.val[partOf(f)], !.i = f.i + 1]
    ELSE IF ~Atoi(partOf(f)).err THEN
        IF indexElem(f.node, Atoi(partOf(f)).n).ok
        THEN [f EXCEPT !.node = indexElem(f.node, Atoi(partOf(f)).n).node, !.i = f.i + 1]
        ELSE [f EXCEPT !.i = Len(partsOf(f)) + 1]
    ELSE IF mapLookup(f.node, partOf(f)).ok
         THEN [f EXCEPT !.node = mapLookup(f.node, partOf(f)).node, !.i = f.i + 1]
         ELSE [f EXCEPT !.i = Len(partsOf(f)) + 1]

InitCalls ==
    /\ doc \in ConcDocs
    /\ path = <<>>
    /\ pc = "start"
    /\ res = NullResult
    /\ sub = <<>>
    /\ res2 = NullResult
    /\ out = NoOut
    /\ calls = <<>>
    /\ gs = [g \in Goroutines |-> Idle]
    /\ stack = <<>>
    /\ steps = 0

\* Get up to its call of getByPath, or to its return when it makes none
Enter(p) ==
    /\ pc = "start"
    /\ path' = p
    /\ IF IsEmptyText(doc) \/ Unmarshal(doc).err \/ p = <<>>
       THEN pc' = "returned" /\ res' = Get(doc, p) /\ stack' = <<>>
       ELSE pc' = "resolving" /\ res' = res /\ stack' = <<Frame(Unmarshal(doc).root, p)>>
    /\ steps' = steps + 1
    /\ UNCHANGED <<doc, sub, res2, out, calls, gs>>

\* the loop of the call on top of the stack takes a part that is an index
\* or a key, or skips an empty part
Advance ==
    /\ pc = "resolving"
    /\ LET top == stack[Len(stack)]
       IN  /\ top.i <= Len(partsOf(top))
           /\ ~IsCallPart(top)
           /\ stack' = [stack EXCEPT ![Len(stack)] = turn(top)]
    /\ steps' = steps + 1
    /\ UNCHANGED <<doc, path, pc, res, sub, res2, out, calls, gs>>

\* the call on top of the stack makes its next call of getByPath
Descend ==
    /\ pc = "resolving"
    /\ Len(stack) < MaxDepth
    /\ LET top == stack[Len(stack)]
       IN  /\ IsCallPart(top)
           /\ top.made < Len(callsAt(top))
           /\ stack' = Append([stack EXCEPT ![Len(stack)].made = top.made + 1],
                              Frame(callsAt(top)[top.made + 1].node, callsAt(top)[top.made + 1].p))
    /\ steps' = steps + 1
    /\ UNCHANGED <<doc, path, pc, res, sub, res2, out, calls, gs>>

\* the call on top of the stack is through its parts or has made the calls
\* of its part, and returns; with the return of the first call Get returns
Ascend ==
    /\ pc = "resolving"
    /\ LET top == stack[Len(stack)]
       IN  \/ top.i > Len(partsOf(top))
           \/ IsCallPart(top) /\ top.made = Len(callsAt(top))
    /\ stack' = SubSeq(stack, 1, Len(stack) - 1)
    /\ IF Len(stack) = 1
       THEN pc' = "returned" /\ res' = Get(doc, path)
       ELSE pc' = pc /\ res' = res
    /\ steps' = steps + 1
    /\ UNCHANGED <<doc, path, sub, res2, out, calls, gs>>

NextCalls ==
    \/ \E p \in CallPaths : Enter(p)
    \/ Advance
    \/ Descend
    \/ Ascend

SpecCalls == InitCalls /\ [][NextCalls]_vars

(***************************************************************************)
(* What the properties speak of: the tree of the document, the segments of *)
(* the resolved path, and the node a prefix of plain segments leads to --  *)
(* read off the tree, not computed by getByPath.                           *)
(***************************************************************************)
DocRoot == Unmarshal(doc).root

\* a Get on a document that parses has returned
Got == pc = "got" /\ doc.form = "yaml"

Parts == Split(path, <<".">>)

IsQueryTok(t) == HasPrefix(t, <<"#", "(">>) /\ HasSuffix(t, <<")">>)

IsIndexTok(t) == ~Atoi(t).err

\* a Key or Index token, or an empty one
IsPlain(t) == ~HasPrefix(t, <<"#">>)

IsKeyTok(t) == t # <<>> /\ IsPlain(t) /\ ~IsIndexTok(t)

IsContainer(node) == node.kind \in {"slice", "strmap", "genmap"}

ChildCount(node) ==
    IF node.kind = "slice" THEN Len(node.val) ELSE Cardinality(DOMAIN node.val)

\* the mapping node defines the key
Defines(node, key) ==
    \/ node.kind = "strmap" /\ key \in DOMAIN node.val
    \/ node.kind = "genmap" /\ VStr(key) \in DOMAIN node.val

FieldOf(node, key) ==
    IF node.kind = "strmap" THEN node.val[key] ELSE node.val[VStr(key)]

InRange(node, idx) == node.kind = "slice" /\ 0 <= idx /\ idx < Len(node.val)

RECURSIVE RefNode(_, _)
\* the node that plain tokens lead to from node, if they all resolve
RefNode(node, toks) ==
    IF toks = <<>> THEN [ok |-> TRUE, node |-> node]
    ELSE LET t == Head(toks)
         IN  IF t = <<>> THEN RefNode(node, Tail(toks))
             ELSE IF IsIndexTok(t)
             THEN IF InRange(node, Atoi(t).n)
                  THEN RefNode(node.val[Atoi(t).n + 1], Tail(toks))
                  ELSE [ok |-> FALSE, node |-> Nil]
             ELSE IF Defines(node, t) THEN RefNode(FieldOf(node, t), Tail(toks))
             ELSE [ok |-> FALSE, node |-> Nil]

\* the parts before part j are plain and lead to a node
PlainBefore(j) ==
    /\ \A i \in 1..(j - 1) : IsPlain(Parts[i])
    /\ RefNode(DocRoot, SubSeq(Parts, 1, j - 1)).ok

NodeBefore(j) == RefNode(DocRoot, SubSeq(Parts, 1, j - 1)).node

RestAfter(j) == Join(SubSeq(Parts, j + 1, Len(Parts)), <<".">>)

\* the count of elements of the sequence a Container result wraps
CountOf(r) == Len(Unmarshal(r.Raw).root.val)

WrapsSlice(r) == r.Type = "YAML" /\ Unmarshal(r.Raw).root.kind = "slice"

(***************************************************************************)
(* C1.  For a path P of Key and Index segments that leads to a sequence or *)
(* a mapping (string-keyed or not), get(D, P + ".#") is a Number whose     *)
(* value is the number of immediate children of that node.                 *)
(***************************************************************************)
C1_LengthCountsChildren ==
    Got =>
        LET n == Len(Parts)
        IN  (n >= 2 /\ Parts[n] = <<"#">>)
            => LET r == Get(doc, Take(path, Len(path) - 2))
               IN  r.Type = "YAML"
                   => /\ res.Type = "Number"
                      /\ res.Num = Float64(ChildCount(Unmarshal(r.Raw).root))

(***************************************************************************)
(* C2.  get(D, "arr.#(k=v)") is the element at the smallest index i such   *)
(* that arr[i] has field k whose textual rendering is exactly v, and Null  *)
(* when there is no such index.                                            *)
(***************************************************************************)
C2_QueryFirstMatch ==
    Got =>
        LET n == Len(Parts)
        IN  (n >= 1 /\ IsQueryTok(Parts[n]) /\ PlainBefore(n) /\ NodeBefore(n).kind = "slice")
            => LET q    == parseQuery(SubSeq(Parts[n], 3, Len(Parts[n]) - 1))
                   arr  == NodeBefore(n).val
                   hits == {i \in 1..Len(arr) :
                               Defines(arr[i], q.key) /\ Sprint(FieldOf(arr[i], q.key)) = q.value}
               IN  (q.operator = <<"=">> /\ q.key # <<>>)
                   => res = IF hits = {} THEN NullResult ELSE makeResult(arr[Least(hits)])

\* the elements of the sequence before part j that define the key
Defining(j, key) == {i \in 1..Len(NodeBefore(j).val) : Defines(NodeBefore(j).val[i], key)}

\* a path "arr.#.k": a sequence arr, then "#", then a Key token as last part
BroadcastOfKey ==
    /\ Got
    /\ Len(Parts) >= 2
    /\ Parts[Len(Parts) - 1] = <<"#">>
    /\ IsKeyTok(Parts[Len(Parts)])
    /\ PlainBefore(Len(Parts) - 1)
    /\ NodeBefore(Len(Parts) - 1).kind = "slice"

(***************************************************************************)
(* C3 as stated.  get(D, "arr.#.k") is a Container of at most Len(arr)     *)
(* elements, and of exactly as many elements as arr has elements defining  *)
(* key k, whatever value k holds in them.                                  *)
(***************************************************************************)
C3_BroadcastCountsDefiningElements ==
    BroadcastOfKey =>
        LET j == Len(Parts) - 1
        IN  /\ WrapsSlice(res)
            /\ CountOf(res) <= Len(NodeBefore(j).val)
            /\ CountOf(res) = Cardinality(Defining(j, Parts[j + 1]))

(***************************************************************************)
(* C3.  get(D, "arr.#.k") is a Container of at most Len(arr) elements, and *)
(* of exactly as many elements as arr has elements that define key k with  *)
(* a value other than null.                                                *)
(***************************************************************************)
C3_BroadcastCountsNonNull ==
    BroadcastOfKey =>
        LET j   == Len(Parts) - 1
            arr == NodeBefore(j).val
        IN  /\ WrapsSlice(res)
            /\ CountOf(res) <= Len(arr)
            /\ CountOf(res) =
                  Cardinality({i \in Defining(j, Parts[j + 1]) : FieldOf(arr[i], Parts[j + 1]) # Nil})

\* an element defines k as null next to one that holds a value: one is counted
C3_Witness ==
    /\ BroadcastOfKey
    /\ LET j   == Len(Parts) - 1
           arr == NodeBefore(j).val
       IN  /\ Cardinality(Defining(j, Parts[j + 1])) = 2
           /\ \E i \in Defining(j, Parts[j + 1]) : FieldOf(arr[i], Parts[j + 1]) = Nil
           /\ CountOf(res) = 1

\* the number a subject of an ordering comparison stands for, if any
NumberOf(node) ==
    CASE node.kind = "int"     -> [err |-> FALSE, f |-> Float64(node.val)]
      [] node.kind = "float64" -> [err |-> FALSE, f |-> node.val]
      [] node.kind = "string"  -> ParseFloat(node.val)
      [] OTHER                 -> [err |-> TRUE, f |-> 0]

OrderingOps == {<<">">>, <<"<">>, <<">", "=">>, <<"<", "=">>}

Holds(op, a, b) ==
    CASE op = <<">">>      -> a > b
      [] op = <<"<">>      -> a < b
      [] op = <<">", "=">> -> a >= b
      [] op = <<"<", "=">> -> a <= b

\* the subject and the literal are both numbers and the operator holds of them
NumericallySatisfies(subject, q) ==
    /\ ~NumberOf(subject).err
    /\ ~ParseFloat(q.value).err
    /\ Holds(q.operator, NumberOf(subject).f, ParseFloat(q.value).f)

(***************************************************************************)
(* C4.  A query with an ordering operator (>, <, >=, <=) as last segment   *)
(* returns an element only if that element's subject and the literal both  *)
(* parse as numbers and the operator holds of them; an unparseable subject *)
(* or literal never satisfies the predicate.                               *)
(***************************************************************************)
C4_IncomparableNeverMatches ==
    Got =>
        LET n == Len(Parts)
        IN  (n >= 1 /\ IsQueryTok(Parts[n]) /\ PlainBefore(n) /\ NodeBefore(n).kind = "slice")
            => LET q   == parseQuery(SubSeq(Parts[n], 3, Len(Parts[n]) - 1))
                   arr == NodeBefore(n).val
               IN  (q.operator \in OrderingOps /\ q.key # <<>> /\ Exists(res))
                   => \E i \in 1..Len(arr) :
                         /\ res = makeResult(arr[i])
                         /\ Defines(arr[i], q.key)
                         /\ NumericallySatisfies(FieldOf(arr[i], q.key), q)

RECURSIVE Misses(_, _, _)
\* some segment of toks misses when toks is resolved from node: a key the
\* mapping lacks, an index out of range, a segment on a node of the wrong
\* type.  With deep, a miss of a Broadcast payload in an element counts too.
Misses(node, toks, deep) ==
    IF toks = <<>> THEN FALSE
    ELSE LET t    == Head(toks)
             rest == Tail(toks)
         IN
         IF t = <<>> THEN Misses(node, rest, deep)
         ELSE IF t = <<"#">> THEN
            IF rest = <<>> THEN ~IsContainer(node)
            ELSE \/ node.kind # "slice"
                 \/ deep /\ \E i \in 1..Len(node.val) : Misses(node.val[i], rest, deep)
         ELSE IF IsQueryTok(t) THEN
            \/ node.kind # "slice"
            \/ LET q    == parseQuery(SubSeq(t, 3, Len(t) - 1))
                   hits == {i \in 1..Len(node.val) : itemMatches(node.val[i], q)}
               IN  hits # {} /\ Misses(node.val[Least(hits)], rest, deep)
         ELSE IF HasPrefix(t, <<"#">>) THEN
            IF Defines(node, t) THEN Misses(FieldOf(node, t), rest, deep)
            ELSE \/ node.kind # "slice"
                 \/ deep /\ \E i \in 1..Len(node.val) : Misses(node.val[i], <<Tail(t)>>, deep)
         ELSE IF IsIndexTok(t) THEN
            \/ ~InRange(node, Atoi(t).n)
            \/ Misses(node.val[Atoi(t).n + 1], rest, deep)
         ELSE \/ ~Defines(node, t)
              \/ Misses(FieldOf(node, t), rest, deep)

(***************************************************************************)
(* C5 as stated.  If any segment of the path misses -- whatever its kind,  *)
(* wherever it stands, a Broadcast payload included -- get(D, P) is Null.  *)
(***************************************************************************)
C5_AnyMissIsNull ==
    (Got /\ Misses(DocRoot, Parts, TRUE)) => res = NullResult

(***************************************************************************)
(* C5.  If a segment that is not part of a Broadcast payload misses,       *)
(* get(D, P) is Null whichever segment missed and whatever follows it; a   *)
(* miss of a Broadcast payload in an element of the sequence leaves the    *)
(* result a Container.                                                     *)
(***************************************************************************)
C5_OuterMissIsNull ==
    Got =>
        /\ Misses(DocRoot, Parts, FALSE) => res = NullResult
        /\ (Misses(DocRoot, Parts, TRUE) /\ ~Misses(DocRoot, Parts, FALSE)) => WrapsSlice(res)

\* a query matched and a segment after it missed
C5_Witness ==
    /\ Got
    /\ Len(Parts) >= 3
    /\ IsQueryTok(Parts[2])
    /\ RefNode(DocRoot, <<Parts[1]>>).ok
    /\ handleArrayQuery(RefNode(DocRoot, <<Parts[1]>>).node, SubSeq(Parts[2], 3, Len(Parts[2]) - 1)) # NullResult
    /\ Misses(DocRoot, Parts, FALSE)
    /\ res = NullResult

(***************************************************************************)
(* C6.  An Index segment i on a sequence of length n gives Null when i < 0 *)
(* or i >= n (so for every index on the empty sequence), and otherwise the *)
(* resolution goes on from element i with the segments that follow.        *)
(***************************************************************************)
C6_IndexBounds ==
    Got =>
        \A j \in 1..Len(Parts) :
            (IsIndexTok(Parts[j]) /\ PlainBefore(j) /\ NodeBefore(j).kind = "slice")
            => LET arr == NodeBefore(j).val
                   idx == Atoi(Parts[j]).n
               IN  IF idx < 0 \/ idx >= Len(arr) THEN res = NullResult
                   ELSE res = getByPath(arr[idx + 1], RestAfter(j))

\* an out-of-range index on a non-empty sequence gave Null
C6_Witness ==
    /\ Got
    /\ \E j \in 1..Len(Parts) :
          /\ IsIndexTok(Parts[j]) /\ PlainBefore(j) /\ NodeBefore(j).kind = "slice"
          /\ Len(NodeBefore(j).val) > 0
          /\ Atoi(Parts[j]).n >= Len(NodeBefore(j).val)
    /\ res = NullResult

\* part j is a Broadcast segment: '#' before further parts, or a token '#x'
\* that is no query and no literal key of the node it is applied to
IsBroadcastAt(j) ==
    /\ PlainBefore(j)
    /\ \/ Parts[j] = <<"#">> /\ j < Len(Parts)
       \/ /\ HasPrefix(Parts[j], <<"#">>) /\ Parts[j] # <<"#">>
          /\ ~IsQueryTok(Parts[j])
          /\ ~Defines(NodeBefore(j), Parts[j])

(***************************************************************************)
(* C7.  A Broadcast segment on a sequence yields a Container that wraps a  *)
(* sequence and Exists, also when no element contributes; on a node that   *)
(* is not a sequence it yields Null.                                       *)
(***************************************************************************)
C7_BroadcastContainer ==
    Got =>
        \A j \in 1..Len(Parts) :
            IsBroadcastAt(j)
            => IF NodeBefore(j).kind = "slice"
               THEN Exists(res) /\ WrapsSlice(res)
               ELSE res = NullResult

\* a Broadcast on a non-empty sequence to which no element contributes
C7_Witness ==
    /\ Got
    /\ \E j \in 1..Len(Parts) :
          IsBroadcastAt(j) /\ NodeBefore(j).kind = "slice" /\ Len(NodeBefore(j).val) > 0
    /\ WrapsSlice(res)
    /\ CountOf(res) = 0

\* part j is a Query segment reached through plain parts
IsQueryAt(j) == PlainBefore(j) /\ IsQueryTok(Parts[j])

\* the indices of the elements of the node before part j that the query matches
HitsAt(j) ==
    IF NodeBefore(j).kind # "slice" THEN {}
    ELSE {i \in 1..Len(NodeBefore(j).val) :
             itemMatches(NodeBefore(j).val[i], parseQuery(SubSeq(Parts[j], 3, Len(Parts[j]) - 1)))}

(***************************************************************************)
(* C8.  When segments follow a Query segment the result is the resolution  *)
(* of exactly those segments against the first matching element; when      *)
(* nothing follows it is that element; when nothing matches or the node is *)
(* not a sequence it is Null, whatever follows.                            *)
(***************************************************************************)
C8_QueryContinuation ==
    Got =>
        \A j \in 1..Len(Parts) :
            IsQueryAt(j)
            => IF HitsAt(j) = {} THEN res = NullResult
               ELSE LET elem == NodeBefore(j).val[Least(HitsAt(j))]
                    IN  IF j < Len(Parts) THEN res = getByPath(elem, RestAfter(j))
                        ELSE res = makeResult(elem)

\* a query matched a mapping and the Length segment after it counted its keys
C8_Witness ==
    /\ Got
    /\ \E j \in 1..Len(Parts) :
          /\ IsQueryAt(j) /\ HitsAt(j) # {}
          /\ j + 1 = Len(Parts) /\ Parts[j + 1] = <<"#">>
    /\ res.Type = "Number"

\* part j is a token '#x' -- neither '#' nor a query -- reached through plain parts
IsHashWordAt(j) ==
    /\ PlainBefore(j)
    /\ HasPrefix(Parts[j], <<"#">>) /\ Parts[j] # <<"#">>
    /\ ~IsQueryTok(Parts[j])

(***************************************************************************)
(* C9.  A token '#x' that is a literal key of the current mapping resolves *)
(* to the value of that key and the resolution goes on with the segments   *)
(* that follow; only when the node has no such key is it the broadcast of  *)
(* x; and '#' as last segment gives a length, never a key lookup.          *)
(***************************************************************************)
C9_LiteralHashKey ==
    Got =>
        /\ \A j \in 1..Len(Parts) :
              IsHashWordAt(j)
              => IF Defines(NodeBefore(j), Parts[j])
                 THEN res = getByPath(FieldOf(NodeBefore(j), Parts[j]), RestAfter(j))
                 ELSE res = handleArrayOperation(NodeBefore(j), Tail(Parts[j]))
        /\ (/\ Parts[Len(Parts)] = <<"#">> /\ PlainBefore(Len(Parts))
            /\ NodeBefore(Len(Parts)).kind \in {"slice", "strmap"})
              => res.Type = "Number"

\* the Results at hand: those returned by get, parse and Result.get, and the
\* ones Array, Map and ForEach make of them
Returned ==
    LET direct == {res, res2}
    IN  direct
        \cup UNION {{ResultArray(r).items[i] : i \in DOMAIN ResultArray(r).items} : r \in direct}
        \cup UNION {{ResultMap(r).items[k] : k \in DOMAIN ResultMap(r).items} : r \in direct}
        \cup UNION {{kv[2] : kv \in ResultForEach(r)} : r \in direct}

(***************************************************************************)
(* C10.  For every Container Result R -- returned by get, parse or         *)
(* Result.get, or made by Array, Map or ForEach -- R.get("") is a Result   *)
(* equal to R: same type, same raw text.                                   *)
(***************************************************************************)
C10_RoundTrip ==
    /\ (pc = "chained" /\ sub = <<>> /\ res.Type = "YAML") => res2 = res
    /\ \A r \in Returned : r.Type = "YAML" => ResultGet(r, <<>>) = r

\* get with a path returned a Container and get("") on it has been called
C10_Witness ==
    /\ pc = "chained" /\ sub = <<>>
    /\ path # <<>>
    /\ res.Type = "YAML"
    /\ res2 = res
    /\ \E r \in Returned : r.Type = "YAML" /\ r # res

\* every part of the path is a Key, an Index or a Query token
KeyIndexQueryPath(p) ==
    \A i \in 1..Len(Split(p, <<".">>)) :
        LET t == Split(p, <<".">>)[i]
        IN  t # <<>> /\ (IsPlain(t) \/ IsQueryTok(t))

NonEmptyParts == SelectSeq(Parts, LAMBDA t : t # <<>>)

(***************************************************************************)
(* C12.  A path with empty segments -- from leading, trailing or repeated  *)
(* dots, around any segment kind, '#' included -- resolves to the same     *)
(* result as the path with the empty segments removed.                     *)
(***************************************************************************)
C12_EmptySegmentsIgnored ==
    (Got /\ NonEmptyParts # <<>>) => res = Get(doc, Join(NonEmptyParts, <<".">>))

(***************************************************************************)
(* Properties of the coercions, over the second state machine              *)
(***************************************************************************)
\* the coercion fn has returned
Coerced(fn) == pc = "returned" /\ out.fn = fn

(***************************************************************************)
(* C13.  Uint() on a Number Result prefers the retained raw text: when the *)
(* raw text parses as a base-10 non-negative integer n, Uint() returns n   *)
(* whatever the float field holds; otherwise it returns the truncation of  *)
(* the float, and 0 for a negative float.                                  *)
(***************************************************************************)
C13_UintPrefersRaw ==
    (Coerced("Uint") /\ res.Type = "Number") =>
        out.ret = IF ParseUint(TrimSpace(res.Raw.text)).err = "nil"
                  THEN ParseUint(TrimSpace(res.Raw.text)).n
                  ELSE IF res.Num < 0 THEN <<"0">> ELSE FormatInt(Int64(res.Num))

(***************************************************************************)
(* C14.  Int() and Uint() on a String Result return the parsed value when  *)
(* the text is a base-10 integer that fits in 64 bits, and 0 on every      *)
(* parse failure: text that is no number, empty text, whitespace around    *)
(* the digits, a magnitude out of the 64-bit range, a sign for Uint.       *)
(***************************************************************************)
C14_StringParsesOrZero ==
    (pc = "returned" /\ res.Type = "String") =>
        /\ out.fn = "Int" =>
              out.ret = IF ParseInt(res.Str).err = "nil" THEN ParseInt(res.Str).n ELSE <<"0">>
        /\ out.fn = "Uint" =>
              out.ret = IF ParseUint(res.Str).err = "nil" THEN ParseUint(res.Str).n ELSE <<"0">>

\* the decimal text of an integer: digits under an optional minus sign
IsDecimal(d) == d # <<>> /\ AllDigits(IF d[1] = "-" /\ Len(d) > 1 THEN Tail(d) ELSE d)

\* what a coercion returns is a value of its type
WellTyped(o) ==
    CASE o.fn = "String"  -> o.ret.form \in {"chars", "yaml", "bad"}
      [] o.fn = "Bool"    -> o.ret \in BOOLEAN
      [] o.fn = "Int"     -> IsDecimal(o.ret)
      [] o.fn = "Uint"    -> AllDigits(o.ret)
      [] o.fn = "Float"   -> o.ret \in Int
      [] o.fn = "Array"   -> o.ret.isNil \in BOOLEAN
      [] o.fn = "Map"     -> o.ret.isNil \in BOOLEAN
      [] o.fn = "Value"   -> o.ret = Nil \/ o.ret.kind \in {"bool", "string", "int", "float64", "slice", "strmap", "genmap"}
      [] o.fn = "Exists"  -> o.ret \in BOOLEAN
      [] o.fn = "ForEach" -> TRUE

\* the default of each coercion
Default(fn) ==
    CASE fn = "String"  -> EmptyText
      [] fn = "Bool"    -> FALSE
      [] fn = "Int"     -> <<"0">>
      [] fn = "Uint"    -> <<"0">>
      [] fn = "Float"   -> 0
      [] fn = "Array"   -> [isNil |-> TRUE, items |-> <<>>]
      [] fn = "Map"     -> [isNil |-> TRUE, items |-> <<>>]
      [] fn = "Value"   -> Nil
      [] fn = "Exists"  -> FALSE
      [] fn = "ForEach" -> <<>>

Children(t) ==
    IF t.Type = "YAML" /\ ~Unmarshal(t.Raw).err /\ IsContainer(Unmarshal(t.Raw).root)
    THEN Unmarshal(t.Raw).root
    ELSE VSlice(<<>>)

\* the iterator has never answered false before its last call
StoppedAtFalse == \A i \in 1..(Len(calls) - 1) : calls[i].continue

\* ForEach has returned and the iterator never answered false
RanToEnd ==
    pc = "returned" /\ out.fn = "ForEach" /\ \A i \in 1..Len(calls) : calls[i].continue

(***************************************************************************)
(* C16.  ForEach on a Container wrapping a sequence of n elements calls    *)
(* the iterator with the Number keys 0, 1, ..., n-1 in ascending order,    *)
(* each with its element; on a mapping it calls it once per entry with the *)
(* entry's String key; once the iterator returns false no further call     *)
(* occurs; on a non-Container, an empty container or a Container whose     *)
(* text does not parse the iterator is never called.                       *)
(***************************************************************************)
C16_ForEachOrder ==
    LET node == Children(res)
    IN  /\ StoppedAtFalse
        /\ Len(calls) <= ChildCount(node)
        /\ RanToEnd => Len(calls) = ChildCount(node)
        /\ node.kind = "slice" =>
              \A i \in 1..Len(calls) :
                  /\ calls[i].key.Type = "Number" /\ calls[i].key.Num = Float64(i - 1)
                  /\ calls[i].value = makeResult(node.val[i])
        /\ node.kind # "slice" =>
              \A i \in 1..Len(calls) :
                  /\ calls[i].key.Type = "String"
                  /\ \E k \in DOMAIN node.val :
                        /\ k = (IF node.kind = "strmap" THEN calls[i].key.Str ELSE VStr(calls[i].key.Str))
                        /\ calls[i].value = makeResult(node.val[k])
                  /\ \A j \in 1..Len(calls) : calls[j].key = calls[i].key => j = i

(***************************************************************************)
(* Properties of the entry points, over the first state machine            *)
(***************************************************************************)
(***************************************************************************)
(* C17.  The entry points agree on the validity of a document: parse(D)    *)
(* and get(D, "") are non-Null exactly when valid(D) is true, get(D, P) is *)
(* Null for every P when D does not parse, and parse(D) equals get(D, ""). *)
(***************************************************************************)
C17_EntryPointsAgree ==
    /\ (pc = "validated" /\ out.fn = "Valid") =>
          /\ out.ret <=> Exists(Parse(doc))
          /\ out.ret <=> Exists(Get(doc, <<>>))
    /\ (pc = "got" /\ ~Valid(doc)) => res = NullResult
    /\ pc = "parsed" => res = Get(doc, <<>>)

\* the Type of the Result that stands for a node
TypeOf(node) ==
    CASE node = Nil               -> "Null"
      [] node = VBool(TRUE)       -> "True"
      [] node = VBool(FALSE)      -> "False"
      [] node.kind \in {"int", "float64"} -> "Number"
      [] node.kind = "string"     -> "String"
      [] OTHER                    -> "YAML"

\* a Get with a path of Key and Index segments that lead to a node
Addressed ==
    /\ Got
    /\ \A i \in 1..Len(Parts) : IsPlain(Parts[i])
    /\ RefNode(DocRoot, Parts).ok

AddressedNode == RefNode(DocRoot, Parts).node

(***************************************************************************)
(* C18.  For every document D and path P, the empty path and parse(D)      *)
(* included, the Result is a Container if and only if the addressed node   *)
(* is a mapping or a sequence, the matching scalar variant when it is a    *)
(* scalar, and Null when it is null; the raw text of every Container       *)
(* parses to a mapping or a sequence.                                      *)
(***************************************************************************)
C18_TerminalClassification ==
    /\ Addressed => res.Type = TypeOf(AddressedNode)
    /\ (pc = "parsed" /\ doc.form = "yaml") => res.Type = TypeOf(DocRoot)
    /\ \A r \in {res, res2} :
          r.Type = "YAML" => ~Unmarshal(r.Raw).err /\ IsContainer(Unmarshal(r.Raw).root)

\* part j opens a query that the dot of its literal cuts in two
IsCutQueryAt(j) ==
    /\ j + 1 = Len(Parts)
    /\ HasPrefix(Parts[j], <<"#", "(">>) /\ ~HasSuffix(Parts[j], <<")">>)
    /\ HasSuffix(Parts[j + 1], <<")">>)
    /\ AllDigits(SubSeq(Parts[j + 1], 1, Len(Parts[j + 1]) - 1))

\* the query of the parts j and j+1 taken as one segment
WholeQuery(j) ==
    parseQuery(SubSeq(Parts[j], 3, Len(Parts[j])) \o <<".">> \o SubSeq(Parts[j + 1], 1, Len(Parts[j + 1]) - 1))

\* the elements of the node before part j that satisfy the whole query
WholeHits(j) ==
    IF NodeBefore(j).kind # "slice" THEN {}
    ELSE {i \in 1..Len(NodeBefore(j).val) : itemMatches(NodeBefore(j).val[i], WholeQuery(j))}

(***************************************************************************)
(* C19.  A query whose literal contains a '.', as in "#(>1.5)" or          *)
(* "#(k=2.0)", is evaluated as one Query segment: the result is the first  *)
(* element of the sequence that satisfies the comparison with that         *)
(* literal, and Null if no element does.                                   *)
(***************************************************************************)
C19_DecimalLiteralQuery ==
    Got =>
        \A j \in 1..(Len(Parts) - 1) :
            (IsCutQueryAt(j) /\ PlainBefore(j)) =>
                res = IF WholeHits(j) = {} THEN NullResult
                      ELSE makeResult(NodeBefore(j).val[Least(WholeHits(j))])

\* a value that is present and falsy
IsFalsy(node) ==
    node \in {VBool(FALSE), VInt(0), VStr(<<>>), VSlice(<<>>), StrMap({})}

(***************************************************************************)
(* C20.  get(D, P).Exists() is true whenever P addresses a node whose      *)
(* value is false, 0, the empty string, an empty sequence or an empty      *)
(* mapping, the Result having the type False, Number, String or Container  *)
(* of that value, and is false when P addresses no node or an explicit     *)
(* null.                                                                   *)
(***************************************************************************)
C20_ExistsTellsFalsyFromAbsent ==
    /\ (Addressed /\ IsFalsy(AddressedNode)) =>
          Exists(res) /\ res.Type = TypeOf(AddressedNode)
    /\ (Addressed /\ AddressedNode = Nil) => ~Exists(res)
    /\ (Got /\ Misses(DocRoot, Parts, FALSE) /\ \A i \in 1..Len(Parts) : IsPlain(Parts[i])) => ~Exists(res)

(***************************************************************************)
(* Properties of concurrent calls, over the third state machine            *)
(***************************************************************************)
(***************************************************************************)
(* C21.  Any number of concurrent get calls on the same document text,     *)
(* under every interleaving, each return the same result as the same call  *)
(* run alone; a call that has not returned has touched nothing but its own *)
(* locals.                                                                 *)
(***************************************************************************)
C21_ConcurrentGetsAgree ==
    \A g \in Goroutines :
        /\ gs[g].at = "done" => gs[g].ret = Get(doc, gs[g].arg)
        /\ gs[g].at = "decoded" => gs[g].root = Unmarshal(doc).root
        /\ gs[g].at = "idle" => gs[g] = Idle

\* one call has returned a Result that exists while another call, with
\* another path, is between its Unmarshal and its resolution
C21_Witness ==
    \E g, h \in Goroutines :
        /\ gs[g].at = "done" /\ Exists(gs[g].ret)
        /\ gs[h].at = "decoded" /\ gs[h].arg # gs[g].arg

(***************************************************************************)
(* Further properties of the resolver, over the first state machine        *)
(***************************************************************************)
\* the predicate of the query token t
Predicate(t) == SubSeq(t, 3, Len(t) - 1)

\* the predicate holds none of the operators =, !=, >, <, >=, <=
HasNoOperator(pred) == \A i \in 1..Len(pred) : pred[i] \notin {"=", ">", "<"}

(***************************************************************************)
(* C22.  A Query segment whose predicate holds none of the operators =,    *)
(* !=, >, <, >=, <= -- the empty predicate "#()" and a bare key such as    *)
(* "#(k)" among them -- resolves to Null for every sequence.               *)
(***************************************************************************)
C22_NoOperatorIsNull ==
    Got =>
        \A j \in 1..Len(Parts) :
            (IsQueryAt(j) /\ HasNoOperator(Predicate(Parts[j]))) => res = NullResult

\* a bare key that the first element of the sequence has
C22_Witness ==
    /\ Got
    /\ \E j \in 1..Len(Parts) :
          /\ IsQueryAt(j) /\ Parts[j] = Query(<<"k">>, <<>>, <<>>)
          /\ NodeBefore(j).kind = "slice" /\ Len(NodeBefore(j).val) > 0
          /\ Defines(NodeBefore(j).val[1], <<"k">>)
    /\ res = NullResult

(***************************************************************************)
(* C23.  A path token that parses as a base-10 integer is always an Index  *)
(* segment: applied to a mapping or a scalar it yields Null, even when the *)
(* mapping has a key whose text is that token; there is no key lookup.     *)
(***************************************************************************)
C23_IntegerTokenIsIndex ==
    Got =>
        \A j \in 1..Len(Parts) :
            (IsIndexTok(Parts[j]) /\ PlainBefore(j) /\ NodeBefore(j).kind # "slice")
                => res = NullResult

\* the token "1" on a mapping that has the key "1"
C23_Witness ==
    /\ Got
    /\ \E j \in 1..Len(Parts) :
          /\ IsIndexTok(Parts[j]) /\ PlainBefore(j)
          /\ NodeBefore(j).kind = "strmap" /\ Parts[j] \in DOMAIN NodeBefore(j).val
    /\ res = NullResult

IsScalar(node) == node.kind \in {"nil", "bool", "string", "int", "float64"}

\* the subject satisfies the operator of the parsed query against its
\* literal: by its rendering for = and !=, as a number for the orderings
Satisfies(subject, q) ==
    CASE q.operator = <<"=">>      -> Sprint(subject) = q.value
      [] q.operator = <<"!", "=">> -> Sprint(subject) # q.value
      [] OTHER                     -> NumericallySatisfies(subject, q)

\* the last part is a Query without a key on a sequence of scalars
KeylessQueryOfScalars ==
    /\ Got
    /\ IsQueryAt(Len(Parts))
    /\ parseQuery(Predicate(Parts[Len(Parts)])).key = <<>>
    /\ parseQuery(Predicate(Parts[Len(Parts)])).operator # <<>>
    /\ NodeBefore(Len(Parts)).kind = "slice"
    /\ \A i \in 1..Len(NodeBefore(Len(Parts)).val) : IsScalar(NodeBefore(Len(Parts)).val[i])

(***************************************************************************)
(* C24.  A Query with an omitted key, "#(OP v)", over a sequence of        *)
(* scalars compares each element itself and returns the first element, in  *)
(* sequence order, that satisfies OP against v -- Null if none does, Null  *)
(* on the empty sequence -- for each of the six operators.                 *)
(***************************************************************************)
C24_KeylessQuery ==
    KeylessQueryOfScalars =>
        LET arr  == NodeBefore(Len(Parts)).val
            q    == parseQuery(Predicate(Parts[Len(Parts)]))
            hits == {i \in 1..Len(arr) : Satisfies(arr[i], q)}
        IN  res = IF hits = {} THEN NullResult ELSE makeResult(arr[Least(hits)])

\* the last part is a Query with a key, on a sequence
KeyedQuery ==
    /\ Got
    /\ IsQueryAt(Len(Parts))
    /\ parseQuery(Predicate(Parts[Len(Parts)])).key # <<>>
    /\ parseQuery(Predicate(Parts[Len(Parts)])).operator # <<>>
    /\ NodeBefore(Len(Parts)).kind = "slice"

(***************************************************************************)
(* C25.  With a non-empty key k a Query of any operator, != included,      *)
(* never selects an element that lacks field k or that is no mapping: it   *)
(* returns the first element, in sequence order, that has field k and      *)
(* whose field satisfies the operator, and Null if there is none.          *)
(***************************************************************************)
C25_KeyedQuery ==
    KeyedQuery =>
        LET arr  == NodeBefore(Len(Parts)).val
            q    == parseQuery(Predicate(Parts[Len(Parts)]))
            hits == {i \in 1..Len(arr) :
                        Defines(arr[i], q.key) /\ Satisfies(FieldOf(arr[i], q.key), q)}
        IN  res = IF hits = {} THEN NullResult ELSE makeResult(arr[Least(hits)])

\* the path with its part j, a token "#k", written as the two parts "#" and "k"
Unfolded(j) ==
    Join(SubSeq(Parts, 1, j - 1) \o << <<"#">>, Tail(Parts[j]) >> \o SubSeq(Parts, j + 1, Len(Parts)),
         <<".">>)

\* part j is a shorthand "#k" with a Key k, no literal key of the node it
\* is applied to
IsShorthandAt(j) ==
    /\ IsHashWordAt(j)
    /\ IsKeyTok(Tail(Parts[j]))
    /\ ~Defines(NodeBefore(j), Parts[j])

(***************************************************************************)
(* C27.  Whenever "#k" is no literal key of the current container, a path  *)
(* "P.#k" followed by any further segments R resolves to the same result   *)
(* as "P.#.k" followed by R: the segments after "#k" take part in the      *)
(* resolution.                                                             *)
(***************************************************************************)
C27_ShorthandEquivalence ==
    Got => \A j \in 1..Len(Parts) : IsShorthandAt(j) => res = Get(doc, Unfolded(j))

\* the place of the first '=' of the predicate, 0 if it has none
FirstEquals(pred) == FirstOf({i \in 1..Len(pred) : pred[i] = "="})

\* the predicate reads k="v" or k='v': a key without operator characters,
\* '=', and a literal between two quotes of one kind
IsQuotedEquality(pred) ==
    LET eq == FirstEquals(pred)
    IN  /\ eq > 1 /\ eq + 2 <= Len(pred)
        /\ \A i \in 1..(eq - 1) : pred[i] \notin {"!", "<", ">", "\"", "'", " "}
        /\ pred[eq + 1] \in {"\"", "'"}
        /\ pred[Len(pred)] = pred[eq + 1]

QuotedKey(pred) == SubSeq(pred, 1, FirstEquals(pred) - 1)

QuotedLiteral(pred) == SubSeq(pred, FirstEquals(pred) + 2, Len(pred) - 1)

(***************************************************************************)
(* C28.  For a predicate #(k="v") with a quoted literal v the key is k,    *)
(* the operator is = and the literal is v, for every v, operator           *)
(* characters (>, <, !, =) in it included; the query selects the first     *)
(* element whose field k renders exactly as v.                             *)
(***************************************************************************)
C28_QuotedLiteralVerbatim ==
    (Got /\ IsQueryAt(Len(Parts)) /\ IsQuotedEquality(Predicate(Parts[Len(Parts)]))
         /\ NodeBefore(Len(Parts)).kind = "slice") =>
        LET pred == Predicate(Parts[Len(Parts)])
            arr  == NodeBefore(Len(Parts)).val
            hits == {i \in 1..Len(arr) :
                        /\ arr[i].kind = "strmap" /\ QuotedKey(pred) \in DOMAIN arr[i].val
                        /\ Sprint(arr[i].val[QuotedKey(pred)]) = QuotedLiteral(pred)}
        IN  /\ parseQuery(pred) = [key |-> QuotedKey(pred), operator |-> <<"=">>, value |-> QuotedLiteral(pred)]
            /\ res = IF hits = {} THEN NullResult ELSE makeResult(arr[Least(hits)])

(***************************************************************************)
(* Properties of the recursion, over the fourth state machine              *)
(***************************************************************************)
\* every call on the stack has a path strictly shorter than its caller's
PathsShorten == \A i \in 2..Len(stack) : Len(stack[i].p) < Len(stack[i - 1].p)

(***************************************************************************)
(* C30.  Resolution always terminates: for every tree and every path get   *)
(* returns after finitely many steps, because every recursive              *)
(* sub-resolution -- a broadcast payload, a '#key' shorthand, a query      *)
(* continuation -- works on a path strictly shorter than the one being     *)
(* resolved.                                                               *)
(***************************************************************************)
C30_Terminates ==
    /\ PathsShorten
    /\ Len(stack) < MaxDepth
    /\ steps <= MaxSteps
    /\ pc = "resolving" => stack # <<>>
    /\ pc = "returned" => stack = <<>> /\ res = Get(doc, path)

\* a call of getByPath made by a call that was itself made by getByPath
C30_Witness == pc = "resolving" /\ Len(stack) = 3 /\ stack[2].made > 0

(***************************************************************************)
(* Properties of Int() on the integers of a document                       *)
(***************************************************************************)
\* the subject of query q in the element elem, if it has one
SubjectOf(elem, q) ==
    IF q.key = <<>> THEN [ok |-> IsScalar(elem), node |-> elem]
    ELSE IF Defines(elem, q.key) THEN [ok |-> TRUE, node |-> FieldOf(elem, q.key)]
    ELSE [ok |-> FALSE, node |-> Nil]

\* the elements of the sequence arr that satisfy the query of the token t
Satisfying(arr, t) ==
    {i \in 1..Len(arr) :
        /\ SubjectOf(arr[i], parseQuery(Predicate(t))).ok
        /\ Satisfies(SubjectOf(arr[i], parseQuery(Predicate(t))).node, parseQuery(Predicate(t)))}

RECURSIVE Referent(_, _)
\* the node that the tokens toks address from node: empty tokens are
\* skipped, a key or an index addresses a child, and a query the first
\* element that satisfies it
Referent(node, toks) ==
    IF toks = <<>> THEN [ok |-> TRUE, node |-> node]
    ELSE IF Head(toks) = <<>> THEN Referent(node, Tail(toks))
    ELSE IF IsQueryTok(Head(toks)) THEN
        IF node.kind = "slice" /\ Satisfying(node.val, Head(toks)) # {}
        THEN Referent(node.val[Least(Satisfying(node.val, Head(toks)))], Tail(toks))
        ELSE [ok |-> FALSE, node |-> Nil]
    ELSE IF IsPlain(Head(toks)) /\ RefNode(node, <<Head(toks)>>).ok
         THEN Referent(RefNode(node, <<Head(toks)>>).node, Tail(toks))
         ELSE [ok |-> FALSE, node |-> Nil]

\* the path addresses an integer of the document
AddressesInteger ==
    /\ doc.form = "yaml"
    /\ Referent(DocRoot, Parts).ok
    /\ Referent(DocRoot, Parts).node.kind = "int"

(***************************************************************************)
(* C26.  Int() is exact: for every integer n of the signed 64-bit range    *)
(* that a path addresses in a document, get(D, P).Int() returns n, also    *)
(* when float64 cannot hold n; on a Number Result, Int() returns the       *)
(* integer its raw text parses to, and the truncation of the float when    *)
(* the raw text is absent or is no base-10 integer.                        *)
(***************************************************************************)
C26_IntIsExact ==
    Coerced("Int") =>
        /\ AddressesInteger => out.ret = FormatInt(Referent(DocRoot, Parts).node.val)
        /\ res.Type = "Number" /\ ParseInt(TrimSpace(res.Raw.text)).err = "nil" =>
               out.ret = ParseInt(TrimSpace(res.Raw.text)).n
        /\ res.Type = "Number" /\ ParseInt(TrimSpace(res.Raw.text)).err = "syntax" =>
               out.ret = FormatInt(Int64(res.Num))

\* Int() on what Get returned for an integer beyond 2^53
C26_Witness ==
    /\ Coerced("Int")
    /\ AddressesInteger
    /\ Referent(DocRoot, Parts).node.val > Pow53
    /\ out.ret = FormatInt(Referent(DocRoot, Parts).node.val)

(***************************************************************************)
(* Properties of the Container of a broadcast                              *)
(***************************************************************************)
\* the path has a '#' token after keys and indices that lead to a
\* sequence, and a payload after it
IsBroadcast ==
    /\ Got
    /\ \E j \in 1..(Len(Parts) - 1) :
          /\ Parts[j] = <<"#">>
          /\ PlainBefore(j)
          /\ NodeBefore(j).kind = "slice"
          /\ Join(SubSeq(Parts, j + 1, Len(Parts)), <<".">>) # <<>>

\* the position of that token
BroadcastAt == CHOOSE j \in 1..(Len(Parts) - 1) : Parts[j] = <<"#">> /\ PlainBefore(j)

\* the payload of the broadcast
Payload == Join(SubSeq(Parts, BroadcastAt + 1, Len(Parts)), <<".">>)

\* the sub-resolutions of the payload that exist, in the order of the sequence
Kept ==
    SelectSeq([i \in 1..Len(NodeBefore(BroadcastAt).val) |->
                   getByPath(NodeBefore(BroadcastAt).val[i], Payload)],
              LAMBDA r : Exists(r))

\* two Results of the same type and value: the same text, float and
\* integer, and for Containers the same tree
SameValue(a, b) ==
    /\ a.Type = b.Type
    /\ a.Str = b.Str
    /\ a.Num = b.Num
    /\ ResultInt(a) = ResultInt(b)
    /\ a.Type = "YAML" => Unmarshal(a.Raw) = Unmarshal(b.Raw)

(***************************************************************************)
(* C29.  A broadcast preserves order and values: its Container lists, in   *)
(* the order of the sequence, exactly the sub-resolutions that exist, and  *)
(* its j-th element is of the same type and value, integers exactly, as    *)
(* the j-th existing result of resolving the payload against an element.   *)
(***************************************************************************)
C29_BroadcastPreserves ==
    IsBroadcast =>
        /\ res.Type = "YAML"
        /\ ~Unmarshal(res.Raw).err
        /\ Unmarshal(res.Raw).root.kind = "slice"
        /\ Len(Unmarshal(res.Raw).root.val) = Len(Kept)
        /\ \A j \in 1..Len(Kept) : SameValue(makeResult(Unmarshal(res.Raw).root.val[j]), Kept[j])

=============================================================================
